---------------------------- MODULE Spec2Model ----------------------------
(***************************************************************************)
(* CodePulse: the structured-generation layer (services/geminiService.ts)  *)
(* and the two chat views (MockInterview, DoubtBuster) as state machines.  *)
(*                                                                         *)
(* Part 1 models generateAndParse (retry loop), handleApiError and the     *)
(* orchestrators generateFullInterviewPrep / generateRandomizedPrepSet.    *)
(* Part 2 models the chat sessions of MockInterview and DoubtBuster.       *)
(*                                                                         *)
(* Texts are sequences of tokens.  An error message is a sequence of       *)
(* message tokens; a service response text is a sequence of characters.    *)
(* React is modelled as the production build runs it: state updaters are   *)
(* applied in the order they are queued, and an effect runs in the same    *)
(* step as the event that triggers it.                                     *)
(***************************************************************************)
EXTENDS Integers, Sequences, FiniteSets, TLC

(***************************************************************************)
(* Bounds of the model.                                                    *)
(***************************************************************************)
\* largest maxRetries tried for a direct call of generateAndParse
MaxRetriesBound == 3
\* chat sessions created (createChat calls) in one run
MaxChats == 2
\* sendMessageStream calls in one run
MaxDispatch == 4
\* chunks one stream delivers before it ends or fails
MaxChunks == 1
\* transcript entries before the user stops typing new messages
MaxMessages == 4
\* tokens in an error message handed to handleApiError by itself
MaxMessageTokens == 2
MaxRequests == 3

(***************************************************************************)
(* Part 1.  Errors and handleApiError.                                     *)
(***************************************************************************)
Null == [kind |-> "null"]

\* new Error(message): message is a sequence of tokens
Error(message) == [kind |-> "Error", message |-> message]

\* a thrown value that is not an Error instance
NonError == [kind |-> "other"]

SentenceInvalidKey == "Invalid API key. Please check your Google AI API key configuration."
SentenceQuota == "API quota exceeded. Please try again later or check your billing status."
SentenceInvalidRequest == "Invalid request. Please check your input and try again."
SentenceUnavailable == "AI service temporarily unavailable. Please try again later."
SentenceSafety == "Request blocked by safety filters. Please modify your input."
SentenceGeneric == "The AI is currently unavailable. Please try again in a moment."
UnexpectedPrefix == "Unexpected error: "

EmptyResponseMessage == "Empty response from AI service"
InvalidFormatMessage == "Invalid JSON response format"
JsonSyntaxMessage == "Unexpected token in JSON"
ApiKeyMissingMessage == "API_KEY is not configured. Please ensure GEMINI_API_KEY is set in your .env file."

\* String.prototype.toLowerCase on one token
ToLowerCase(tok) ==
    CASE tok = "API key not valid" -> "api key not valid"
      [] tok = "Quota" -> "quota"
      [] tok = "SAFETY" -> "safety"
      [] tok = "Network down" -> "network down"
      [] tok = SentenceInvalidKey -> "invalid api key. please check your google ai api key configuration."
      [] tok = SentenceQuota -> "api quota exceeded. please try again later or check your billing status."
      [] tok = SentenceInvalidRequest -> "invalid request. please check your input and try again."
      [] tok = SentenceUnavailable -> "ai service temporarily unavailable. please try again later."
      [] tok = SentenceSafety -> "request blocked by safety filters. please modify your input."
      [] tok = SentenceGeneric -> "the ai is currently unavailable. please try again in a moment."
      [] tok = UnexpectedPrefix -> "unexpected error: "
      [] tok = EmptyResponseMessage -> "empty response from ai service"
      [] tok = InvalidFormatMessage -> "invalid json response format"
      [] tok = JsonSyntaxMessage -> "unexpected token in json"
      [] tok = ApiKeyMissingMessage -> "api_key is not configured. please ensure gemini_api_key is set in your .env file."
      [] OTHER -> tok

\* the keywords of handleApiError that occur as substrings of a lower-case token
KeywordsIn(low) ==
    CASE low = "api key not valid" -> {"api key not valid"}
      [] low = "quota" -> {"quota"}
      [] low = "429" -> {"429"}
      [] low = "400" -> {"400"}
      [] low = "500" -> {"500"}
      [] low = "503" -> {"503"}
      [] low = "safety" -> {"safety"}
      [] low = "api quota exceeded. please try again later or check your billing status." -> {"quota"}
      [] low = "request blocked by safety filters. please modify your input." -> {"safety"}
      [] OTHER -> {}

\* msg.includes(kw) on error.message.toLowerCase()
Includes(message, kw) ==
    \E i \in DOMAIN message : kw \in KeywordsIn(ToLowerCase(message[i]))

\* mutant of handleApiError: an Error that matches no rule is handed back as
\* it came
handleApiErrorPassesThrough(error) ==
    IF error.kind = "Error"
    THEN LET msg == error.message IN
         IF Includes(msg, "api key not valid") THEN Error(<<SentenceInvalidKey>>)
         ELSE IF Includes(msg, "quota") \/ Includes(msg, "429") THEN Error(<<SentenceQuota>>)
         ELSE IF Includes(msg, "400") THEN Error(<<SentenceInvalidRequest>>)
         ELSE IF Includes(msg, "500") \/ Includes(msg, "503") THEN Error(<<SentenceUnavailable>>)
         ELSE IF Includes(msg, "safety") THEN Error(<<SentenceSafety>>)
         ELSE error
    ELSE Error(<<SentenceGeneric>>)

\* mutant of handleApiError: the rule of '400' is tried before the rule of
\* 'quota' and '429'
handleApiErrorRequestFirst(error) ==
    IF error.kind = "Error" /\ error.message # << >>
    THEN LET msg == error.message IN
         IF Includes(msg, "api key not valid") THEN Error(<<SentenceInvalidKey>>)
         ELSE IF Includes(msg, "400") THEN Error(<<SentenceInvalidRequest>>)
         ELSE IF Includes(msg, "quota") \/ Includes(msg, "429") THEN Error(<<SentenceQuota>>)
         ELSE IF Includes(msg, "500") \/ Includes(msg, "503") THEN Error(<<SentenceUnavailable>>)
         ELSE IF Includes(msg, "safety") THEN Error(<<SentenceSafety>>)
         ELSE Error(<<UnexpectedPrefix>> \o error.message)
    ELSE Error(<<SentenceGeneric>>)

\* lines 43-66
handleApiError(error) ==
    IF error.kind = "Error" /\ error.message # << >>
    THEN LET msg == error.message IN
         IF Includes(msg, "api key not valid") THEN Error(<<SentenceInvalidKey>>)
         ELSE IF Includes(msg, "quota") \/ Includes(msg, "429") THEN Error(<<SentenceQuota>>)
         ELSE IF Includes(msg, "400") THEN Error(<<SentenceInvalidRequest>>)
         ELSE IF Includes(msg, "500") \/ Includes(msg, "503") THEN Error(<<SentenceUnavailable>>)
         ELSE IF Includes(msg, "safety") THEN Error(<<SentenceSafety>>)
         ELSE Error(<<UnexpectedPrefix>> \o error.message)
    ELSE Error(<<SentenceGeneric>>)

(***************************************************************************)
(* Service responses and the parse step of generateAndParse.               *)
(***************************************************************************)
\* String.prototype.trim: drop leading and trailing blanks
RECURSIVE TrimStart(_)
TrimStart(s) == IF s # << >> /\ Head(s) = " " THEN TrimStart(Tail(s)) ELSE s

RECURSIVE TrimEnd(_)
TrimEnd(s) ==
    IF s # << >> /\ s[Len(s)] = " " THEN TrimEnd(SubSeq(s, 1, Len(s) - 1)) ELSE s

Trim(s) == TrimEnd(TrimStart(s))

StartsWith(s, c) == s # << >> /\ Head(s) = c

\* the JSON texts of the model: JSON.parse accepts exactly these.  Inside an
\* object, "g" stands for "generalQuestions":[...] and "t" for
\* "technicalQuestions":[...]
ValidJson == { <<"{", "}">>, <<"[", "]">>, <<"{", "g", "}">>, <<"{", "g", "t", "}">> }

\* the tokens of a text: JSON.parse skips the white space around them
NotBlank(c) == c # " "

JsonTokens(s) == SelectSeq(s, NotBlank)

\* JSON.parse: the value read from a valid text, a SyntaxError otherwise
JSONParse(s) ==
    IF JsonTokens(s) \in ValidJson
    THEN [ok |-> TRUE, value |-> [json |-> JsonTokens(s)]]
    ELSE [ok |-> FALSE, error |-> Error(<<JsonSyntaxMessage>>)]

\* the JavaScript value undefined
Undefined == [kind |-> "undefined"]

\* the values [] and {} of the defaults of lines 418-421 and 513-517
EmptyArray == [json |-> <<"[", "]">>]
EmptyObject == [json |-> <<"{", "}">>]

\* value.generalQuestions ("g") or value.technicalQuestions ("t") of a parsed
\* value: the array of that field, undefined when the text has no such field
Field(value, name) ==
    IF Head(value.json) = "{" /\ \E i \in DOMAIN value.json : value.json[i] = name
    THEN [json |-> <<"[", name, "]">>]
    ELSE Undefined

\* a || b: every parsed value is an object or an array, hence truthy
OrDefault(a, b) == IF a = Undefined THEN b ELSE a

\* mutant of ParseResponse: the fields of a parsed object are dropped
ParseResponseDropsFields(text) ==
    IF text = << >>
    THEN [ok |-> FALSE, error |-> Error(<<EmptyResponseMessage>>), parsed |-> FALSE]
    ELSE LET jsonText == Trim(text) IN
         IF ~StartsWith(jsonText, "{") /\ ~StartsWith(jsonText, "[")
         THEN [ok |-> FALSE, error |-> Error(<<InvalidFormatMessage>>), parsed |-> FALSE]
         ELSE LET r == JSONParse(jsonText) IN
              IF r.ok
              THEN [ok |-> TRUE, parsed |-> TRUE,
                    value |-> IF Head(jsonText) = "{" THEN [json |-> <<"{", "}">>]
                              ELSE r.value]
              ELSE [ok |-> FALSE, error |-> r.error, parsed |-> TRUE]

\* mutant of ParseResponse: no test of the first character, JSON.parse decides
ParseResponseParsesAnyway(text) ==
    IF text = << >>
    THEN [ok |-> FALSE, error |-> Error(<<EmptyResponseMessage>>), parsed |-> FALSE]
    ELSE LET r == JSONParse(Trim(text)) IN
         IF r.ok
         THEN [ok |-> TRUE, value |-> r.value, parsed |-> TRUE]
         ELSE [ok |-> FALSE, error |-> r.error, parsed |-> TRUE]

\* mutant of ParseResponse: the text is trimmed before it is tested for emptiness
ParseResponseTrimsFirst(text) ==
    LET jsonText == Trim(text) IN
    IF jsonText = << >>
    THEN [ok |-> FALSE, error |-> Error(<<EmptyResponseMessage>>), parsed |-> FALSE]
    ELSE IF ~StartsWith(jsonText, "{") /\ ~StartsWith(jsonText, "[")
    THEN [ok |-> FALSE, error |-> Error(<<InvalidFormatMessage>>), parsed |-> FALSE]
    ELSE LET r == JSONParse(jsonText) IN
         IF r.ok
         THEN [ok |-> TRUE, value |-> r.value, parsed |-> TRUE]
         ELSE [ok |-> FALSE, error |-> r.error, parsed |-> TRUE]

\* lines 282-293: what one attempt makes of response.text
\* parsed tells whether JSON.parse (line 293) was called
ParseResponse(text) ==
    IF text = << >>
    THEN [ok |-> FALSE, error |-> Error(<<EmptyResponseMessage>>), parsed |-> FALSE]
    ELSE LET jsonText == Trim(text) IN
         IF ~StartsWith(jsonText, "{") /\ ~StartsWith(jsonText, "[")
         THEN [ok |-> FALSE, error |-> Error(<<InvalidFormatMessage>>), parsed |-> FALSE]
         ELSE LET r == JSONParse(jsonText) IN
              IF r.ok
              THEN [ok |-> TRUE, value |-> r.value, parsed |-> TRUE]
              ELSE [ok |-> FALSE, error |-> r.error, parsed |-> TRUE]

\* history: the attempt settled without a response text
NoResponse == [kind |-> "none"]

\* history: the attempt settled with text; parsed: JSON.parse was called on it
Response(text, parsed) == [kind |-> "text", text |-> text, parsed |-> parsed]

\* what the service may answer to one request: a text, or a rejection
ResponseTexts ==
    { << >>, <<" ">>, <<"{", "}">>, <<" ", "[", " ", "]", " ">>, <<"{", "x">>, <<"h", "i">>,
      <<"{", "g", "t", "}">> }

\* what a rejected request may throw
ServiceErrors == { Error(<<"503">>), Error(<<"Network down">>), NonError }

(***************************************************************************)
(* The arguments of the public functions.  A text argument is a sequence   *)
(* of tokens, " " being white space.                                       *)
(***************************************************************************)
\* mutant of Blank: the argument is tested without trim()
BlankUntrimmed(text) == text = << >>

\* !x?.trim() of lines 329, 438, 532, 560, 616
Blank(text) == Trim(text) = << >>

ContentWriterRole == <<"C", "o", "n", "t", "e", "n", "t", " ", "W", "r", "i", "t", "e", "r">>
EngineerRole == <<"E", "n", "g", "i", "n", "e", "e", "r">>

JobRoles == { << >>, <<" ">>, ContentWriterRole, EngineerRole }

DifficultyLevels == {"Junior", "Senior"}

\* a required text other than the job role: missing, white space, or given
RequiredTexts == { << >>, <<" ", " ">>, <<"x">> }

JobRoleRequiredMessage == "Job role is required"
SolutionRequiredMessage == "Both problem title and description are required"
CompanyRequiredMessage == "Company name is required"
ResumeRequiredMessage == "Both resume and job description are required"
NoInsightsMessage == "Unable to generate insights"

\* String.prototype.toLowerCase on the letters of the job roles
LowerOf ==
    "A" :> "a" @@ "B" :> "b" @@ "C" :> "c" @@ "D" :> "d" @@ "E" :> "e" @@
    "F" :> "f" @@ "G" :> "g" @@ "H" :> "h" @@ "I" :> "i" @@ "J" :> "j" @@
    "K" :> "k" @@ "L" :> "l" @@ "M" :> "m" @@ "N" :> "n" @@ "O" :> "o" @@
    "P" :> "p" @@ "Q" :> "q" @@ "R" :> "r" @@ "S" :> "s" @@ "T" :> "t" @@
    "U" :> "u" @@ "V" :> "v" @@ "W" :> "w" @@ "X" :> "x" @@ "Y" :> "y" @@
    "Z" :> "z"

toLowerCase(ch) == IF ch \in DOMAIN LowerOf THEN LowerOf[ch] ELSE ch

\* mutant of lowerJobRole: the job role is searched as it was typed
lowerJobRoleAsTyped(jobRole) == jobRole

\* line 317: const lowerJobRole = jobRole.toLowerCase()
lowerJobRole(jobRole) == [i \in DOMAIN jobRole |-> toLowerCase(jobRole[i])]

\* line 316
contentKeywords ==
    { <<"w", "r", "i", "t", "e", "r">>,
      <<"c", "o", "n", "t", "e", "n", "t">>,
      <<"e", "d", "i", "t", "o", "r">>,
      <<"c", "o", "p", "y", "w", "r", "i", "t", "e", "r">>,
      <<"a", "u", "t", "h", "o", "r">>,
      <<"w", "r", "i", "t", "i", "n", "g">>,
      <<"m", "a", "r", "k", "e", "t", "i", "n", "g">>,
      <<"c", "o", "p", "y", "w", "r", "i", "t", "i", "n", "g">> }

\* String.prototype.includes: kw occurs in text at some position
includes(text, kw) ==
    \E p \in 0..(Len(text) - Len(kw)) : SubSeq(text, p + 1, p + Len(kw)) = kw

\* mutant of getRoleCategory: the content keywords are ignored
getRoleCategoryAlwaysTech(jobRole) == "tech"

\* lines 315-319
getRoleCategory(jobRole) ==
    IF \E kw \in contentKeywords : includes(lowerJobRole(jobRole), kw)
    THEN "content"
    ELSE "tech"

NoArgs == [kind |-> "none"]

(***************************************************************************)
(* Part 1, state.  One call of a generation function: the position of its  *)
(* retry loop, what it has requested of the service and what it returned.  *)
(***************************************************************************)
VARIABLES
    apiKey,      \* process.env.API_KEY is configured
    ai,          \* the cached client (line 12): FALSE is null
    op,          \* the function called: "none", "direct", "full", "random"
    maxRetries,  \* generateAndParse's maxRetries of the running sub-call
    sub,         \* index of the running sub-call in SubCalls(op)
    attempt,     \* the loop variable of generateAndParse
    pc,          \* "idle", "inflight", "backoff", "pause", "done"
    lastError,   \* generateAndParse's lastError
    inFlight,    \* service requests issued and not yet settled
    results,     \* values returned by the sub-calls finished so far
    outcome,     \* how the called function ended
    callLog,     \* history: the contextId of every service request, in order
    attemptLog,  \* history: every attempt and how it ended
    lastFailure, \* history: what the latest failed attempt threw
    lastText,    \* history: the text of the latest response that parsed
    lastWait,    \* history: the latest setTimeout wait
    pauses,      \* history: the number of pauses between sub-calls so far
    args,        \* the arguments of the function called
    lastResponse, \* history: the response of the latest attempt that settled
    category,    \* the orchestrator's const roleCategory (lines 333, 442)
    promptLog,   \* history: the role category written into each request's prompt
    clientsBuilt \* history: how many times line 32 ran new GoogleGenAI

genVars == <<apiKey, ai, op, maxRetries, sub, attempt, pc, lastError, inFlight,
             results, outcome, callLog, attemptLog, lastFailure, lastText,
             lastWait, pauses, args, lastResponse, category, promptLog,
             clientsBuilt>>

\* handleApiError called by itself: its argument and what it returned
VARIABLES
    thrown,
    friendlyError

classifyVars == <<thrown, friendlyError>>

VARIABLES
    roleText,      \* the jobRole argument of getRoleCategory
    roleCategory   \* what getRoleCategory returned, "none" before the call

roleVars == <<roleText, roleCategory>>

\* the arguments and results of the functions checked on their own
pureVars == <<classifyVars, roleVars>>

\* App and the views of its tabs (Part 3)
VARIABLES
    app,          \* the state of App: jobRole, prepData, isLoading, isRefreshing, error, activeTab
    machine,      \* the state of the MachineCodingRound on screen
    dream,        \* the state of DreamCompanyView
    insightsView, \* the state of CompanyInsightsView
    resumeView,   \* the state of ResumeAnalyzerView
    promises,     \* the calls of the service functions that have not settled
    requests,     \* the number of calls of the service functions so far
    failed        \* history: the inputs of the call whose error a view shows

appVars == <<app, machine, dream, insightsView, resumeView, promises, requests, failed>>

\* the state of the chat views (Part 2), which the generators leave alone
VARIABLES
    view,                  \* the component: "mock" or "doubt"
    started,               \* mock: interviewStarted; doubt: the component is mounted
    chat,                  \* the chat state: 0 is null, n > 0 the n-th session
    chatsCreated,          \* sessions created so far
    messages,              \* the transcript (messages state)
    isThinking,
    processingMessage,     \* mock: processingMessage.current
    processingExplanation, \* doubt: processingExplanation.current
    lastProcessedMessage,  \* lastProcessedMessage.current
    textToExplain,         \* AppContext textToExplain: "" is null
    sends,                 \* the sendMessageStream calls that have not settled
    crashed,               \* a state updater threw: React unmounted the tree
    dispatched             \* history: every sendMessageStream call, in order

chatVars == <<view, started, chat, chatsCreated, messages, isThinking, processingMessage,
              processingExplanation, lastProcessedMessage, textToExplain, sends,
              crashed, dispatched>>

\* mutant of SubCalls: the machine-coding call is issued before the challenges
SubCallsSwapped(o) ==
    CASE o = "full" -> <<"questions", "machine", "challenges">>
      [] o = "random" -> <<"random-questions", "system-design", "random-machine",
                          "random-challenges">>
      [] o = "solution" -> <<"solution">>
      [] o = "resume" -> <<"resume-analysis">>
      [] OTHER -> <<"direct">>

\* the sub-calls of an operation, by contextId, in the order of the source
SubCalls(o) ==
    CASE o = "full" -> <<"questions", "challenges", "machine">>
      [] o = "random" -> <<"random-questions", "system-design", "random-challenges",
                          "random-machine">>
      [] o = "solution" -> <<"solution">>
      [] o = "resume" -> <<"resume-analysis">>
      [] OTHER -> <<"direct">>

\* mutant of PauseMs: both orchestrators pause for 2000 ms
PauseMsSame(o) == 2000

\* the pause between two sub-calls, in ms
PauseMs(o) == IF o = "full" THEN 2000 ELSE 1500

Orchestrators == {"full", "random"}

\* the public functions that wrap generateAndParse in a try / catch of their own
Wrappers == {"full", "random", "solution", "resume"}

\* the maxRetries every public function passes (lines 406-414, 500-509, 549, 636)
PublicMaxRetries == 2

\* Math.random() * 1000, two representatives of [0, 1000)
Jitters == {0, 999}

GenState ==
    [ai |-> ai, op |-> op, maxRetries |-> maxRetries, sub |-> sub, attempt |-> attempt,
     pc |-> pc, lastError |-> lastError, inFlight |-> inFlight, results |-> results,
     outcome |-> outcome, callLog |-> callLog, attemptLog |-> attemptLog,
     lastFailure |-> lastFailure, lastText |-> lastText, lastWait |-> lastWait,
     pauses |-> pauses, args |-> args, lastResponse |-> lastResponse,
     category |-> category, promptLog |-> promptLog, clientsBuilt |-> clientsBuilt]

SetGen(s) ==
    /\ ai' = s.ai
    /\ op' = s.op
    /\ maxRetries' = s.maxRetries
    /\ sub' = s.sub
    /\ attempt' = s.attempt
    /\ pc' = s.pc
    /\ lastError' = s.lastError
    /\ inFlight' = s.inFlight
    /\ results' = s.results
    /\ outcome' = s.outcome
    /\ callLog' = s.callLog
    /\ attemptLog' = s.attemptLog
    /\ lastFailure' = s.lastFailure
    /\ lastText' = s.lastText
    /\ lastWait' = s.lastWait
    /\ pauses' = s.pauses
    /\ args' = s.args
    /\ lastResponse' = s.lastResponse
    /\ category' = s.category
    /\ promptLog' = s.promptLog
    /\ clientsBuilt' = s.clientsBuilt
    /\ UNCHANGED chatVars
    /\ UNCHANGED pureVars
    /\ UNCHANGED appVars

NoOutcome == [kind |-> "none"]

\* mutant of Aggregate: the randomized set also records its difficulty
AggregateWithDifficulty(s, rs) ==
    CASE s.op = "full" ->
           [roleCategory |-> s.category,
            generalQuestions |-> OrDefault(Field(rs[1], "g"), EmptyArray),
            technicalQuestions |-> OrDefault(Field(rs[1], "t"), EmptyArray),
            codingChallenges |-> OrDefault(rs[2], EmptyArray),
            machineCoding |-> OrDefault(rs[3], EmptyObject)]
      [] s.op = "random" ->
           [roleCategory |-> s.category,
            difficulty |-> s.args.difficulty,
            generalQuestions |-> OrDefault(Field(rs[1], "g"), EmptyArray),
            technicalQuestions |-> OrDefault(Field(rs[1], "t"), EmptyArray),
            systemDesignQuestions |-> OrDefault(rs[2], EmptyArray),
            codingChallenges |-> OrDefault(rs[3], EmptyArray),
            machineCoding |-> OrDefault(rs[4], EmptyObject)]
      [] OTHER -> rs[1]

\* lines 416-422, 511-518: the aggregate built from the sub-results; lines
\* 550 and 637 return the one result as it is
Aggregate(s, rs) ==
    CASE s.op = "full" ->
           [roleCategory |-> s.category,
            generalQuestions |-> OrDefault(Field(rs[1], "g"), EmptyArray),
            technicalQuestions |-> OrDefault(Field(rs[1], "t"), EmptyArray),
            codingChallenges |-> OrDefault(rs[2], EmptyArray),
            machineCoding |-> OrDefault(rs[3], EmptyObject)]
      [] s.op = "random" ->
           [roleCategory |-> s.category,
            generalQuestions |-> OrDefault(Field(rs[1], "g"), EmptyArray),
            technicalQuestions |-> OrDefault(Field(rs[1], "t"), EmptyArray),
            systemDesignQuestions |-> OrDefault(rs[2], EmptyArray),
            codingChallenges |-> OrDefault(rs[3], EmptyArray),
            machineCoding |-> OrDefault(rs[4], EmptyObject)]
      [] OTHER -> rs[1]

\* mutant of Thrown: the orchestrator swallows the failure of a sub-call and
\* returns what the earlier sub-calls produced
ThrownDegrades(s, error) ==
    [s EXCEPT !.pc = "done",
              !.outcome = IF s.op \in Orchestrators
                          THEN [kind |-> "returned", value |-> [parts |-> s.results]]
                          ELSE [kind |-> "thrown", error |-> error]]

\* the caller of generateAndParse: a direct caller sees the error as thrown, the
\* catch block of a public function (lines 424-426, 520-522, 551-553, 638-640)
\* classifies it once more
Thrown(s, error) ==
    [s EXCEPT !.pc = "done",
              !.outcome = [kind |-> "thrown",
                           error |-> IF s.op \in Wrappers
                                     THEN handleApiError(error) ELSE error]]

\* mutant of LastAttempt: the loop allows one attempt more than maxRetries
LastAttemptLate(s) == s.attempt > s.maxRetries

\* mutant of LastAttempt: the loop gives up one attempt early
LastAttemptEarly(s) == s.attempt + 1 >= s.maxRetries

\* line 299: attempt === maxRetries
LastAttempt(s) == s.attempt = s.maxRetries

\* mutant of Failure: the wait does not grow with the attempt
FailureFixedWait(s, error, jitter) ==
    LET s1 == [s EXCEPT !.lastError = error] IN
    IF LastAttempt(s1)
    THEN Thrown(s1, handleApiError(s1.lastError))
    ELSE [s1 EXCEPT !.pc = "backoff",
                    !.lastWait = [kind |-> "backoff", ms |-> 1000 + jitter]]

\* lines 295-309: the catch block of one attempt, and the throw after the loop
Failure(s, error, jitter) ==
    LET s1 == [s EXCEPT !.lastError = error] IN
    IF LastAttempt(s1)
    THEN Thrown(s1, handleApiError(s1.lastError))
    ELSE [s1 EXCEPT !.pc = "backoff",
                    !.lastWait = [kind |-> "backoff", ms |-> 1000 * s.attempt + jitter]]

\* line 293 returns the value; the orchestrator pauses or builds its aggregate
Success(s, value) ==
    LET rs == Append(s.results, value) IN
    IF s.sub < Len(SubCalls(s.op))
    THEN [s EXCEPT !.results = rs, !.pc = "pause", !.pauses = @ + 1,
                   !.lastWait = [kind |-> "pause", ms |-> PauseMs(s.op)]]
    ELSE [s EXCEPT !.results = rs, !.pc = "done",
                   !.outcome = [kind |-> "returned", value |-> Aggregate(s, rs)]]

\* mutant of getAiClient: the cached client is not looked at, every call with
\* a key builds its own
getAiClientUncached(s) ==
    IF ~apiKey THEN [ok |-> FALSE, error |-> Error(<<ApiKeyMissingMessage>>)]
    ELSE [ok |-> TRUE, ai |-> TRUE, built |-> s.clientsBuilt + 1]

\* lines 20-34
getAiClient(s) ==
    IF s.ai THEN [ok |-> TRUE, ai |-> TRUE, built |-> s.clientsBuilt]
    ELSE IF ~apiKey THEN [ok |-> FALSE, error |-> Error(<<ApiKeyMissingMessage>>)]
    ELSE [ok |-> TRUE, ai |-> TRUE, built |-> s.clientsBuilt + 1]

\* history: attempt s.attempt of sub-call s.sub ended
Logged(s, ok, invoked) ==
    [s EXCEPT !.attemptLog = Append(@, [sub |-> s.sub, attempt |-> s.attempt,
                                        ok |-> ok, invoked |-> invoked])]

\* mutant of BeginAttempt: a retry rebuilds its prompt without the role
\* category of the call, falling back to "tech"
BeginAttemptRebuildsPrompt(s, jitter) ==
    LET c == getAiClient(s) IN
    IF c.ok
    THEN [s EXCEPT !.ai = c.ai, !.clientsBuilt = c.built,
                   !.pc = "inflight", !.inFlight = @ + 1,
                   !.callLog = Append(@, SubCalls(s.op)[s.sub]),
                   !.promptLog = Append(@, IF s.attempt > 1 THEN "tech" ELSE s.category)]
    ELSE Failure([Logged(s, FALSE, FALSE) EXCEPT !.lastFailure = c.error,
                                                  !.lastResponse = NoResponse],
                 c.error, jitter)

\* lines 264-280: the start of one attempt, up to the await of the request
BeginAttempt(s, jitter) ==
    LET c == getAiClient(s) IN
    IF c.ok
    THEN [s EXCEPT !.ai = c.ai, !.clientsBuilt = c.built,
                   !.pc = "inflight", !.inFlight = @ + 1,
                   !.callLog = Append(@, SubCalls(s.op)[s.sub]),
                   !.promptLog = Append(@, s.category)]
    ELSE Failure([Logged(s, FALSE, FALSE) EXCEPT !.lastFailure = c.error,
                                                  !.lastResponse = NoResponse],
                 c.error, jitter)

\* mutant of AfterResponse: the parsed value is not returned from inside the
\* loop, which goes on to its next attempt
AfterResponseKeepsLooping(s, text, jitter) ==
    LET r == ParseResponse(text)
        s1 == [Logged(s, r.ok, TRUE) EXCEPT !.inFlight = @ - 1,
                                            !.lastResponse = Response(text, r.parsed)]
    IN IF r.ok /\ s.attempt < s.maxRetries
       THEN BeginAttempt([s1 EXCEPT !.lastText = text, !.attempt = @ + 1], jitter)
       ELSE IF r.ok
       THEN Success([s1 EXCEPT !.lastText = text], r.value)
       ELSE Failure([s1 EXCEPT !.lastFailure = r.error], r.error, jitter)

\* lines 280-293: the request settles with a text
AfterResponse(s, text, jitter) ==
    LET r == ParseResponse(text)
        s1 == [Logged(s, r.ok, TRUE) EXCEPT !.inFlight = @ - 1,
                                            !.lastResponse = Response(text, r.parsed)]
    IN IF r.ok
       THEN Success([s1 EXCEPT !.lastText = text], r.value)
       ELSE Failure([s1 EXCEPT !.lastFailure = r.error], r.error, jitter)

\* line 276 throws: the request is rejected
AfterRejection(s, error, jitter) ==
    Failure([Logged(s, FALSE, TRUE) EXCEPT !.inFlight = @ - 1, !.lastFailure = error,
                                           !.lastResponse = NoResponse],
            error, jitter)

\* lines 329-331, 438-440, 532-534, 560-562, 616-618: the error of a blank
\* required argument, Null when the arguments pass
MissingInput(s) ==
    CASE s.op \in {"full", "random"} ->
           IF Blank(s.args.jobRole) THEN Error(<<JobRoleRequiredMessage>>) ELSE Null
      [] s.op = "solution" ->
           IF Blank(s.args.problemTitle) \/ Blank(s.args.problemDescription)
           THEN Error(<<SolutionRequiredMessage>>) ELSE Null
      [] s.op = "insights" ->
           IF Blank(s.args.companyName) THEN Error(<<CompanyRequiredMessage>>) ELSE Null
      [] s.op = "resume" ->
           IF Blank(s.args.resume) \/ Blank(s.args.jobDescription)
           THEN Error(<<ResumeRequiredMessage>>) ELSE Null
      [] OTHER -> Null

\* lines 333, 442: the orchestrators compute the role category once, after the
\* validation and before any prompt is built; the other functions have none
RoleCategorized(s) ==
    IF s.op \in Orchestrators
    THEN [s EXCEPT !.category = getRoleCategory(s.args.jobRole)]
    ELSE s

\* a public function is entered: the validation throws outside of any try, or
\* the first generateAndParse call starts
Enter(s, jitter) ==
    IF MissingInput(s) # Null
    THEN [s EXCEPT !.pc = "done", !.outcome = [kind |-> "thrown", error |-> MissingInput(s)]]
    ELSE BeginAttempt(RoleCategorized(s), jitter)

\* lines 607-609: the catch block of generateCompanyInsights
InsightsThrown(s, error) ==
    [s EXCEPT !.pc = "done", !.lastError = error,
              !.outcome = [kind |-> "thrown", error |-> handleApiError(error)]]

\* lines 560-589: generateCompanyInsights up to the await of its one request
EnterInsights(s) ==
    IF MissingInput(s) # Null
    THEN [s EXCEPT !.pc = "done", !.outcome = [kind |-> "thrown", error |-> MissingInput(s)]]
    ELSE LET c == getAiClient(s) IN
         IF c.ok
         THEN [s EXCEPT !.ai = c.ai, !.clientsBuilt = c.built,
                        !.pc = "inflight", !.inFlight = @ + 1,
                        !.callLog = Append(@, "insights"),
                        !.promptLog = Append(@, s.category)]
         ELSE InsightsThrown([Logged(s, FALSE, FALSE) EXCEPT !.lastFailure = c.error],
                             c.error)

\* lines 591-605: the request of generateCompanyInsights settles with a text;
\* the response carries no grounding chunks
InsightsResponse(s, text) ==
    LET s1 == [Logged(s, text # << >>, TRUE) EXCEPT !.inFlight = @ - 1,
                                                    !.lastResponse = Response(text, FALSE)]
    IN
    IF text = << >>
    THEN InsightsThrown([s1 EXCEPT !.lastFailure = Error(<<NoInsightsMessage>>)],
                        Error(<<NoInsightsMessage>>))
    ELSE [s1 EXCEPT !.pc = "done", !.lastText = text,
                    !.outcome = [kind |-> "returned",
                                 value |-> [content |-> text, sources |-> << >>]]]

\* line 582 throws: the request of generateCompanyInsights is rejected
InsightsRejection(s, error) ==
    InsightsThrown([Logged(s, FALSE, TRUE) EXCEPT !.inFlight = @ - 1,
                                                 !.lastFailure = error,
                                                 !.lastResponse = NoResponse], error)

(***************************************************************************)
(* Part 1, actions.                                                        *)
(***************************************************************************)
GenInit ==
    /\ apiKey \in BOOLEAN
    /\ ai = FALSE
    /\ op = "none"
    /\ maxRetries = 2
    /\ sub = 1
    /\ attempt = 1
    /\ pc = "idle"
    /\ lastError = Null
    /\ inFlight = 0
    /\ results = << >>
    /\ outcome = NoOutcome
    /\ callLog = << >>
    /\ attemptLog = << >>
    /\ lastFailure = Null
    /\ lastText = << >>
    /\ lastWait = [kind |-> "none", ms |-> 0]
    /\ pauses = 0
    /\ args = NoArgs
    /\ lastResponse = NoResponse
    /\ category = "none"
    /\ promptLog = << >>
    /\ clientsBuilt = 0

\* generateAndParse(prompt, schema, n) called by itself (line 260)
CallGenerateAndParse ==
    /\ pc = "idle"
    /\ \E n \in 1..MaxRetriesBound, j \in Jitters :
         SetGen(BeginAttempt([GenState EXCEPT !.op = "direct", !.maxRetries = n], j))
    /\ UNCHANGED apiKey

\* generateFullInterviewPrep (lines 324-406): validation, then the first
\* sub-call, maxRetries 2
generateFullInterviewPrep ==
    /\ pc = "idle"
    /\ \E jobRole \in JobRoles, j \in Jitters :
         SetGen(Enter([GenState EXCEPT !.op = "full", !.maxRetries = PublicMaxRetries,
                                       !.args = [jobRole |-> jobRole]], j))
    /\ UNCHANGED apiKey

\* generateRandomizedPrepSet (lines 432-500): validation, then the first
\* sub-call, maxRetries 2
generateRandomizedPrepSet ==
    /\ pc = "idle"
    /\ \E jobRole \in JobRoles, difficulty \in DifficultyLevels, j \in Jitters :
         SetGen(Enter([GenState EXCEPT !.op = "random", !.maxRetries = PublicMaxRetries,
                                       !.args = [jobRole |-> jobRole,
                                                 difficulty |-> difficulty]], j))
    /\ UNCHANGED apiKey

\* generateMachineCodingSolution (lines 528-549)
generateMachineCodingSolution ==
    /\ pc = "idle"
    /\ \E problemTitle \in RequiredTexts, problemDescription \in RequiredTexts,
          j \in Jitters :
         SetGen(Enter([GenState EXCEPT !.op = "solution", !.maxRetries = PublicMaxRetries,
                                       !.args = [problemTitle |-> problemTitle,
                                                 problemDescription |-> problemDescription]],
                      j))
    /\ UNCHANGED apiKey

\* analyzeResume (lines 615-636)
analyzeResume ==
    /\ pc = "idle"
    /\ \E resume \in RequiredTexts, jobDescription \in RequiredTexts, j \in Jitters :
         SetGen(Enter([GenState EXCEPT !.op = "resume", !.maxRetries = PublicMaxRetries,
                                       !.args = [resume |-> resume,
                                                 jobDescription |-> jobDescription]], j))
    /\ UNCHANGED apiKey

\* generateCompanyInsights (lines 559-589): it has no loop, hence one attempt
generateCompanyInsights ==
    /\ pc = "idle"
    /\ \E companyName \in RequiredTexts :
         SetGen(EnterInsights([GenState EXCEPT !.op = "insights", !.maxRetries = 1,
                                               !.args = [companyName |-> companyName]]))
    /\ UNCHANGED apiKey

\* the awaited generateContent resolves
ServiceResponds ==
    /\ pc = "inflight"
    /\ \E text \in ResponseTexts, j \in Jitters :
         SetGen(IF op = "insights" THEN InsightsResponse(GenState, text)
                ELSE AfterResponse(GenState, text, j))
    /\ UNCHANGED apiKey

\* the awaited generateContent rejects
ServiceRejects ==
    /\ pc = "inflight"
    /\ \E e \in ServiceErrors, j \in Jitters :
         SetGen(IF op = "insights" THEN InsightsRejection(GenState, e)
                ELSE AfterRejection(GenState, e, j))
    /\ UNCHANGED apiKey

\* line 305: the backoff timer fires, the loop goes to its next attempt
BackoffElapsed ==
    /\ pc = "backoff"
    /\ \E j \in Jitters :
         SetGen(BeginAttempt([GenState EXCEPT !.attempt = @ + 1], j))
    /\ UNCHANGED apiKey

\* lines 409, 413, 501-507: the pause ends, the next sub-call starts
PauseElapsed ==
    /\ pc = "pause"
    /\ \E j \in Jitters :
         SetGen(BeginAttempt([GenState EXCEPT !.sub = @ + 1, !.attempt = 1,
                                              !.lastError = Null], j))
    /\ UNCHANGED apiKey

GenNext ==
    \/ CallGenerateAndParse
    \/ generateFullInterviewPrep
    \/ generateRandomizedPrepSet
    \/ generateMachineCodingSolution
    \/ analyzeResume
    \/ generateCompanyInsights
    \/ ServiceResponds
    \/ ServiceRejects
    \/ BackoffElapsed
    \/ PauseElapsed

(***************************************************************************)
(* Part 2.  The chat views.  MockInterview (unnamed/part_006) and           *)
(* DoubtBuster (components/JobInputForm.tsx) keep the same state: the chat  *)
(* handle, the transcript, isThinking and the refs that guard sends.  A     *)
(* send in flight is a record in sends; it settles in later steps.          *)
(***************************************************************************)
vars == <<genVars, chatVars, pureVars, appVars>>

ChatState ==
    [ai |-> ai, clientsBuilt |-> clientsBuilt, view |-> view, started |-> started, chat |-> chat,
     chatsCreated |-> chatsCreated, messages |-> messages, isThinking |-> isThinking,
     processingMessage |-> processingMessage,
     processingExplanation |-> processingExplanation,
     lastProcessedMessage |-> lastProcessedMessage, textToExplain |-> textToExplain,
     sends |-> sends, crashed |-> crashed, dispatched |-> dispatched]

SetChat(c) ==
    /\ ai' = c.ai
    /\ clientsBuilt' = c.clientsBuilt
    /\ view' = c.view
    /\ started' = c.started
    /\ chat' = c.chat
    /\ chatsCreated' = c.chatsCreated
    /\ messages' = c.messages
    /\ isThinking' = c.isThinking
    /\ processingMessage' = c.processingMessage
    /\ processingExplanation' = c.processingExplanation
    /\ lastProcessedMessage' = c.lastProcessedMessage
    /\ textToExplain' = c.textToExplain
    /\ sends' = c.sends
    /\ crashed' = c.crashed
    /\ dispatched' = c.dispatched
    /\ UNCHANGED <<apiKey, op, maxRetries, sub, attempt, pc, lastError, inFlight, results,
                   outcome, callLog, attemptLog, lastFailure, lastText, lastWait, pauses,
                   args, lastResponse, category, promptLog>>
    /\ UNCHANGED pureVars
    /\ UNCHANGED appVars

MockKickoff == "Start the interview."
DoubtKickoff == "Introduce yourself briefly and ask me what I'm confused about."

\* what the user may type into the chat input: an answer, or the very words
\* of the kickoff of the view; " " stands for a blank input
UserTexts == {"a", IF view = "mock" THEN MockKickoff ELSE DoubtKickoff}
UserInputs == UserTexts \cup {" "}
IsBlank(m) == m = " "

\* the texts an Explain-This button may carry
ExplainTexts == {"t"}

\* what a failing sendMessageStream or stream may throw
StreamErrors == { Error(<<"503">>) }

\* line 381 of JobInputForm.tsx
ExplainPrompt(t) == "Can you please explain the following clearly?\n\n---\n" \o t \o "\n---"

\* chunk.text of the k-th chunk of the stream of send id
ChunkText(id, k) == "chunk " \o ToString(id) \o "." \o ToString(k)

NoRetry == [kind |-> "none", chat |-> 0, message |-> ""]

\* mutant of RetryProcess: the retry closure does not keep the message
RetryProcessForgetsMessage(chatC, message) == [kind |-> "process", chat |-> chatC, message |-> ""]

\* onRetry: () => processAIResponse(message, true), with the chat of its closure
RetryProcess(chatC, message) == [kind |-> "process", chat |-> chatC, message |-> message]

\* onRetry: () => startInterview(chatInstance, true) / startChat(chatInstance, true)
RetryKickoff(chatC) == [kind |-> "kickoff", chat |-> chatC, message |-> ""]

UserMessage(m) == [role |-> "user", text |-> <<m>>, isError |-> FALSE, onRetry |-> NoRetry]

EmptyModelMessage == [role |-> "model", text |-> << >>, isError |-> FALSE, onRetry |-> NoRetry]

ErrorMessage(text, retry) == [role |-> "model", text |-> text, isError |-> TRUE, onRetry |-> retry]

\* prev.slice(0, -1)
SliceLast(ms) == IF ms = << >> THEN << >> ELSE SubSeq(ms, 1, Len(ms) - 1)

\* chat.sendMessageStream({ message }) is called: the send is in flight
Dispatch(c, kind, chatC, message, isRetry, explain) ==
    [c EXCEPT !.dispatched = Append(@, [chat |-> chatC, message |-> message,
                                        isRetry |-> isRetry, kind |-> kind]),
              !.sends = @ \cup {[id |-> Len(c.dispatched) + 1, kind |-> kind, chat |-> chatC,
                                 message |-> message, isRetry |-> isRetry,
                                 explain |-> explain, phase |-> "awaiting", n |-> 0]}]

\* createChat (lines 646-649 of geminiService.ts) with getAiClient (20-34)
createChat(c) ==
    LET client == getAiClient(c) IN
    IF client.ok
    THEN [ok |-> TRUE, ai |-> client.ai, built |-> client.built,
          chat |-> c.chatsCreated + 1]
    ELSE [ok |-> FALSE, error |-> client.error]

\* the updater of a chunk (part_006 132-143, 182-193; JobInputForm 285-292, 316-323):
\* the text goes to the last message when that is a model message and no error
AppendChunk(ms, text) ==
    LET last == ms[Len(ms)] IN
    IF last.role = "model" /\ ~last.isError
    THEN [ms EXCEPT ![Len(ms)] = [last EXCEPT !.text = Append(@, text)]]
    ELSE ms

Settled(c, x) == [c EXCEPT !.sends = @ \ {x}]

Streaming(c, x) == [c EXCEPT !.sends = (@ \ {x}) \cup {[x EXCEPT !.phase = "streaming"]}]

Received(c, x) == [c EXCEPT !.sends = (@ \ {x}) \cup {[x EXCEPT !.n = @ + 1]}]

(***************************************************************************)
(* MockInterview.                                                          *)
(***************************************************************************)
\* processAIResponse without the comparison with lastProcessedMessage
MockProcessAIResponseResends(c, chatC, message, isRetry) ==
    IF chatC = 0 THEN c
    ELSE IF ~isRetry /\ c.processingMessage THEN c
    ELSE LET c1 == IF ~isRetry
                   THEN [c EXCEPT !.lastProcessedMessage = message,
                                  !.processingMessage = TRUE]
                   ELSE [c EXCEPT !.messages = SliceLast(@)]
         IN Dispatch([c1 EXCEPT !.isThinking = TRUE], "process", chatC, message, isRetry, FALSE)

\* part_006 lines 102-122: processAIResponse up to its first await
MockProcessAIResponse(c, chatC, message, isRetry) ==
    IF chatC = 0 THEN c
    ELSE IF ~isRetry /\ message = c.lastProcessedMessage THEN c
    ELSE IF ~isRetry /\ c.processingMessage THEN c
    ELSE LET c1 == IF ~isRetry
                   THEN [c EXCEPT !.lastProcessedMessage = message,
                                  !.processingMessage = TRUE]
                   ELSE [c EXCEPT !.messages = SliceLast(@)]
         IN Dispatch([c1 EXCEPT !.isThinking = TRUE], "process", chatC, message, isRetry, FALSE)

\* part_006 lines 167-179: startInterview up to its first await
MockStartInterview(c, chatInstance, isRetry) ==
    IF c.processingMessage /\ ~isRetry THEN c
    ELSE LET c1 == [c EXCEPT !.processingMessage = TRUE,
                             !.messages = IF isRetry THEN << >> ELSE @,
                             !.isThinking = TRUE]
         IN Dispatch(c1, "kickoff", chatInstance, MockKickoff, isRetry, FALSE)

\* part_006 lines 209-262: initChat
MockInitChat(c) ==
    IF c.processingMessage THEN c
    ELSE LET made == createChat(c) IN
         IF made.ok
         THEN MockStartInterview([c EXCEPT !.messages = << >>, !.ai = made.ai,
                                           !.clientsBuilt = made.built,
                                           !.chat = made.chat, !.chatsCreated = @ + 1],
                                 made.chat, FALSE)
         ELSE [c EXCEPT !.messages =
                           <<ErrorMessage(<<"I'm sorry, I couldn't start the interview due to a configuration issue: ">>
                                          \o handleApiError(made.error).message, NoRetry)>>,
                        !.isThinking = FALSE,
                        !.processingMessage = FALSE]

\* mutant of MockFinally: the finally block leaves processingMessage.current
\* alone
MockFinallyKeepsGuard(c, x) ==
    Settled([c EXCEPT !.isThinking = FALSE], x)

\* part_006 lines 154-159 and 203-206: the finally blocks
MockFinally(c, x) ==
    Settled([c EXCEPT !.isThinking = FALSE,
                      !.processingMessage =
                          IF x.kind = "kickoff" \/ ~x.isRetry THEN FALSE ELSE @], x)

\* catch blocks that put the error message in the place of the last entry
MockCatchReplacesLast(c, x, error) ==
    IF x.kind = "kickoff"
    THEN [c EXCEPT !.messages =
                      <<ErrorMessage(handleApiError(error).message \o <<" Let's try again.">>,
                                     RetryKickoff(x.chat))>>]
    ELSE [c EXCEPT !.messages =
                      Append(SliceLast(@),
                             ErrorMessage(handleApiError(error).message
                                            \o <<" Would you like to retry sending your last message?">>,
                                          RetryProcess(x.chat, x.message)))]

\* part_006 lines 145-153 and 195-202: the catch blocks
MockCatch(c, x, error) ==
    IF x.kind = "kickoff"
    THEN [c EXCEPT !.messages =
                      <<ErrorMessage(handleApiError(error).message \o <<" Let's try again.">>,
                                     RetryKickoff(x.chat))>>]
    ELSE [c EXCEPT !.messages =
                      Append(@, ErrorMessage(handleApiError(error).message
                                               \o <<" Would you like to retry sending your last message?">>,
                                             RetryProcess(x.chat, x.message)))]

\* part_006 lines 128 and 180: the stream is open, an empty model message
MockOpened(c, x) ==
    Streaming([c EXCEPT !.messages = IF x.kind = "kickoff" THEN <<EmptyModelMessage>>
                                     ELSE Append(@, EmptyModelMessage)], x)

\* part_006 lines 131-144 and 181-194: one chunk.  The updater of
\* processAIResponse reads lastMessage.role without a check: on an empty
\* transcript it throws while React renders
MockChunk(c, x) ==
    IF c.messages = << >>
    THEN IF x.kind = "kickoff" THEN Received(c, x) ELSE [c EXCEPT !.crashed = TRUE]
    ELSE Received([c EXCEPT !.messages = AppendChunk(@, ChunkText(x.id, x.n + 1))], x)

\* part_006 line 284: the guard of handleSendMessage
MockSendRefused(c, m) == IsBlank(m) \/ c.isThinking \/ c.chat = 0 \/ c.processingMessage

\* handleStartInterview (part_006 359-368) and the effect it triggers (264-268)
MockHandleStartInterview ==
    /\ view = "mock" /\ ~crashed
    /\ ~started
    /\ chatsCreated < MaxChats
    /\ Len(dispatched) < MaxDispatch
    /\ SetChat(MockInitChat([ChatState EXCEPT !.started = TRUE]))

\* handleResetInterview (part_006 373-381)
MockHandleResetInterview ==
    /\ view = "mock" /\ ~crashed
    /\ started
    /\ SetChat([ChatState EXCEPT !.started = FALSE, !.chat = 0, !.messages = << >>,
                                 !.isThinking = FALSE, !.processingMessage = FALSE,
                                 !.lastProcessedMessage = ""])

\* handleSendMessage (part_006 282-292) with input m
MockHandleSendMessage(m) ==
    /\ view = "mock" /\ ~crashed
    /\ started
    /\ Len(dispatched) < MaxDispatch
    /\ Len(messages) < MaxMessages
    /\ IF MockSendRefused(ChatState, m)
       THEN UNCHANGED vars
       ELSE SetChat(MockProcessAIResponse(
                        [ChatState EXCEPT !.messages = Append(@, UserMessage(m))],
                        chat, m, FALSE))

\* a click on the Retry button of messages[i] (part_006 503-511)
MockRetry(i) ==
    /\ view = "mock" /\ ~crashed
    /\ started
    /\ Len(dispatched) < MaxDispatch
    /\ i \in DOMAIN messages
    /\ messages[i].isError
    /\ messages[i].onRetry.kind # "none"
    /\ LET r == messages[i].onRetry IN
       IF r.kind = "kickoff"
       THEN SetChat(MockStartInterview(ChatState, r.chat, TRUE))
       ELSE SetChat(MockProcessAIResponse(ChatState, r.chat, r.message, TRUE))

\* the awaited sendMessageStream of x resolves
MockStreamOpens(x) ==
    /\ view = "mock" /\ ~crashed
    /\ x \in sends /\ x.phase = "awaiting"
    /\ SetChat(MockOpened(ChatState, x))

\* the stream of x yields a chunk
MockChunkArrives(x) ==
    /\ view = "mock" /\ ~crashed
    /\ x \in sends /\ x.phase = "streaming" /\ x.n < MaxChunks
    /\ SetChat(MockChunk(ChatState, x))

\* the stream of x is exhausted
MockStreamEnds(x) ==
    /\ view = "mock" /\ ~crashed
    /\ x \in sends /\ x.phase = "streaming"
    /\ SetChat(MockFinally(ChatState, x))

\* sendMessageStream rejects, or the stream of x throws
MockStreamFails(x, error) ==
    /\ view = "mock" /\ ~crashed
    /\ x \in sends
    /\ SetChat(MockFinally(MockCatch(ChatState, x, error), x))

MockNext ==
    \/ MockHandleStartInterview
    \/ MockHandleResetInterview
    \/ \E m \in UserInputs : MockHandleSendMessage(m)
    \/ \E i \in DOMAIN messages : MockRetry(i)
    \/ \E x \in sends : MockStreamOpens(x)
    \/ \E x \in sends : MockChunkArrives(x)
    \/ \E x \in sends : MockStreamEnds(x)
    \/ \E x \in sends, e \in StreamErrors : MockStreamFails(x, e)

(***************************************************************************)
(* DoubtBuster.                                                            *)
(***************************************************************************)
\* JobInputForm.tsx lines 274-282: processAIResponse up to its first await
DoubtProcessAIResponse(c, chatC, message, isRetry, explain) ==
    IF chatC = 0 THEN c
    ELSE IF ~isRetry /\ message = c.lastProcessedMessage THEN c
    ELSE LET c1 == IF ~isRetry
                   THEN [c EXCEPT !.lastProcessedMessage = message]
                   ELSE [c EXCEPT !.messages = SliceLast(@)]
         IN Dispatch([c1 EXCEPT !.isThinking = TRUE], "process", chatC, message, isRetry,
                     explain)

\* JobInputForm.tsx lines 309-313: startChat up to its first await
DoubtStartChat(c, chatInstance, isRetry) ==
    Dispatch([c EXCEPT !.messages = IF isRetry THEN << >> ELSE @, !.isThinking = TRUE],
             "kickoff", chatInstance, DoubtKickoff, isRetry, FALSE)

\* JobInputForm.tsx lines 378-387: the Explain-This effect.  Line 384 clears
\* processingExplanation when the promise of processAIResponse settles, which
\* is at once when processAIResponse returned without sending
DoubtExplainEffect(c) ==
    IF c.textToExplain # "" /\ c.chat # 0 /\ ~c.processingExplanation
    THEN LET prompt == ExplainPrompt(c.textToExplain)
             c1 == DoubtProcessAIResponse(
                       [c EXCEPT !.processingExplanation = TRUE,
                                 !.messages = Append(@, UserMessage(prompt))],
                       c.chat, prompt, FALSE, TRUE)
         IN [c1 EXCEPT !.textToExplain = "",
                       !.processingExplanation = (c1.sends # c.sends)]
    ELSE c

\* JobInputForm.tsx lines 336-375: initChat and the mount effect, then the
\* Explain-This effect of the render that sees the new chat
DoubtInitChat(c) ==
    LET made == createChat(c) IN
    IF made.ok
    THEN LET c1 == [c EXCEPT !.messages = << >>, !.ai = made.ai,
                             !.clientsBuilt = made.built, !.chat = made.chat,
                             !.chatsCreated = @ + 1]
         IN IF c.textToExplain = ""
            THEN DoubtStartChat(c1, made.chat, FALSE)
            ELSE DoubtExplainEffect(c1)
    ELSE [c EXCEPT !.messages =
                      <<ErrorMessage(<<"Apologies, I can't seem to get started due to a configuration issue: ">>
                                     \o handleApiError(made.error).message, NoRetry)>>,
                   !.isThinking = FALSE]

\* JobInputForm.tsx lines 302-304 and 333, and the finally of line 384
DoubtFinally(c, x) ==
    Settled([c EXCEPT !.isThinking = FALSE,
                      !.processingExplanation = IF x.explain THEN FALSE ELSE @], x)

\* JobInputForm.tsx lines 294-301 and 325-332: the catch blocks
DoubtCatch(c, x, error) ==
    IF x.kind = "kickoff"
    THEN [c EXCEPT !.messages =
                      <<ErrorMessage(handleApiError(error).message \o <<" Let's try again.">>,
                                     RetryKickoff(x.chat))>>]
    ELSE [c EXCEPT !.messages =
                      Append(@, ErrorMessage(handleApiError(error).message
                                               \o <<" Would you like to try that again?">>,
                                             RetryProcess(x.chat, x.message)))]

\* JobInputForm.tsx lines 283 and 314
DoubtOpened(c, x) ==
    Streaming([c EXCEPT !.messages = IF x.kind = "kickoff" THEN <<EmptyModelMessage>>
                                     ELSE Append(@, EmptyModelMessage)], x)

\* JobInputForm.tsx lines 284-293 and 315-324: one chunk.  Both updaters read
\* newMessages[lastIndex].role without a check: on an empty transcript they
\* throw while React renders
DoubtChunk(c, x) ==
    IF c.messages = << >>
    THEN [c EXCEPT !.crashed = TRUE]
    ELSE Received([c EXCEPT !.messages = AppendChunk(@, ChunkText(x.id, x.n + 1))], x)

\* JobInputForm.tsx line 395: the guard of handleSendMessage
DoubtSendRefused(c, m) == IsBlank(m) \/ c.isThinking \/ c.chat = 0

\* the component mounts with textToExplain = t ("" when the tab was opened
\* from the sidebar): the mount effect and the Explain-This effect
DoubtMount(t) ==
    /\ view = "doubt" /\ ~crashed
    /\ ~started
    /\ SetChat(DoubtInitChat([ChatState EXCEPT !.started = TRUE, !.textToExplain = t]))

\* handleSendMessage (JobInputForm.tsx 393-400) with input m
DoubtHandleSendMessage(m) ==
    /\ view = "doubt" /\ ~crashed
    /\ started
    /\ Len(dispatched) < MaxDispatch
    /\ Len(messages) < MaxMessages
    /\ IF DoubtSendRefused(ChatState, m)
       THEN UNCHANGED vars
       ELSE SetChat(DoubtProcessAIResponse(
                        [ChatState EXCEPT !.messages = Append(@, UserMessage(m))],
                        chat, m, FALSE, FALSE))

\* a click on the Retry button of messages[i] (JobInputForm.tsx 470-471)
DoubtRetry(i) ==
    /\ view = "doubt" /\ ~crashed
    /\ started
    /\ Len(dispatched) < MaxDispatch
    /\ i \in DOMAIN messages
    /\ messages[i].isError
    /\ messages[i].onRetry.kind # "none"
    /\ LET r == messages[i].onRetry IN
       IF r.kind = "kickoff"
       THEN SetChat(DoubtStartChat(ChatState, r.chat, TRUE))
       ELSE SetChat(DoubtProcessAIResponse(ChatState, r.chat, r.message, TRUE, FALSE))

\* the awaited sendMessageStream of x resolves
DoubtStreamOpens(x) ==
    /\ view = "doubt" /\ ~crashed
    /\ x \in sends /\ x.phase = "awaiting"
    /\ SetChat(DoubtOpened(ChatState, x))

\* the stream of x yields a chunk
DoubtChunkArrives(x) ==
    /\ view = "doubt" /\ ~crashed
    /\ x \in sends /\ x.phase = "streaming" /\ x.n < MaxChunks
    /\ SetChat(DoubtChunk(ChatState, x))

\* the stream of x is exhausted
DoubtStreamEnds(x) ==
    /\ view = "doubt" /\ ~crashed
    /\ x \in sends /\ x.phase = "streaming"
    /\ SetChat(DoubtFinally(ChatState, x))

\* sendMessageStream rejects, or the stream of x throws
DoubtStreamFails(x, error) ==
    /\ view = "doubt" /\ ~crashed
    /\ x \in sends
    /\ SetChat(DoubtFinally(DoubtCatch(ChatState, x, error), x))

\* a click on the Explain button of a code block in the transcript: FormattedText
\* hands disableExplain to its paragraphs and list items only (part_005 114, 159),
\* CodeBlock always renders the button (part_005 79, CodeBlock.tsx 89).
\* handleClick (part_001 22-31) sets textToExplain; the effect of App
\* (part_000 56-60) finds Doubt Buster active already, the Explain-This effect
\* of DoubtBuster runs because textToExplain changed
DoubtExplainClick(t) ==
    /\ view = "doubt" /\ ~crashed
    /\ started
    /\ messages # << >>
    /\ t # textToExplain
    /\ Len(dispatched) < MaxDispatch
    /\ Len(messages) < MaxMessages
    /\ SetChat(DoubtExplainEffect([ChatState EXCEPT !.textToExplain = t]))

DoubtNext ==
    \/ \E t \in ExplainTexts \cup {""} : DoubtMount(t)
    \/ \E m \in UserInputs : DoubtHandleSendMessage(m)
    \/ \E i \in DOMAIN messages : DoubtRetry(i)
    \/ \E x \in sends : DoubtStreamOpens(x)
    \/ \E x \in sends : DoubtChunkArrives(x)
    \/ \E x \in sends : DoubtStreamEnds(x)
    \/ \E x \in sends, e \in StreamErrors : DoubtStreamFails(x, e)

(***************************************************************************)
(* Part 3.  App and the views of its tabs.  App renders the view of the    *)
(* active tab only: the state of a view is lost when its tab is left, and  *)
(* what its calls deliver afterwards goes nowhere.                         *)
(***************************************************************************)
\* part_000 line 27: type Tab
Tabs ==
    { "Home", "Q&A", "Practical Challenges", "Company Insights", "Mock Interview",
      "Dream Company", "Resume Analyzer", "Doubt Buster", "User Manual" }

\* Tabs.tsx line 24
ALWAYS_ENABLED_TABS ==
    { "Home", "Mock Interview", "Dream Company", "Company Insights", "Resume Analyzer",
      "Doubt Buster", "User Manual" }

\* mutant of AppDisabled: the loading state is not looked at
AppDisabledWhileLoading(a) == a.prepData = Null

\* part_000 line 194: disabled={!prepData && !isLoading}
AppDisabled(a) == a.prepData = Null /\ ~a.isLoading

\* Tabs.tsx line 64: the disabled attribute of the button of a tab
isDisabled(name, disabled) == disabled /\ name \notin ALWAYS_ENABLED_TABS

\* what the user may type as a job role in Home and in Dream Company
TypedRoles == { << >>, <<"dev">>, <<"qa", "@", " ", "Acme">> }

\* the difficulty buttons of Dream Company (two of the four levels)
DreamDifficulties == { "Fresher", "Senior" }

EnterJobRoleMessage == "Please enter a job role."
EnterDreamRoleMessage == "Please enter a job role to generate a practice set."

\* the messages of the errors the service functions throw (handleApiError)
FailureMessages == { SentenceGeneric }

\* the aggregate a generation delivers: which call made it, and for what
ResultOf(p) == [request |-> p.id, inputs |-> p.inputs]

\* useState initial values of App (part_000 31-43)
AppInitial ==
    [jobRole |-> << >>, prepData |-> Null, isLoading |-> FALSE, isRefreshing |-> FALSE,
     error |-> "", activeTab |-> "Home"]

\* useState initial values of MachineCodingRound (part_005 287-289), shown
\* for the problem of the aggregate of call `problem` (0: not on screen)
MachineInitial(problem) ==
    [problem |-> problem, solution |-> Null, isFetching |-> FALSE, error |-> ""]

\* useState initial values of DreamCompanyView (RandomizeChallengesView.tsx 27-39)
DreamInitial ==
    [data |-> Null, isLoading |-> FALSE, error |-> "", jobRoleInput |-> << >>,
     difficulty |-> "Fresher", lastGeneratedParams |-> Null]

\* useState initial values of CompanyInsightsView (part_007 42-46)
InsightsInitial ==
    [insights |-> Null, isLoading |-> FALSE, error |-> "", searchTerm |-> << >>,
     searchedCompany |-> << >>]

\* useState initial values of ResumeAnalyzerView (part_004 106-111)
ResumeInitial ==
    [resume |-> << >>, jobDescription |-> << >>, analysis |-> Null, isLoading |-> FALSE,
     error |-> ""]

\* no error on screen comes from a call
NoneFailed == [generate |-> Null, dream |-> Null, insights |-> Null]

\* part_000 147-172: what a data-dependent tab shows
DataTabContent(a) ==
    CASE a.isLoading -> "spinner"
      [] a.error # "" /\ a.prepData = Null -> "error"
      [] a.prepData = Null -> "nothing"
      [] OTHER -> "content"

\* the aggregate whose machineCoding problem is on screen, 0 when none is:
\* CodingChallengeDisplay (part_005 379) in Practical Challenges,
\* RandomizeChallengesView.tsx 219 in Dream Company
MachineProblem(a, d) ==
    CASE a.activeTab = "Practical Challenges" /\ DataTabContent(a) = "content" ->
           a.prepData.request
      [] a.activeTab = "Dream Company" /\ d.data # Null -> d.data.request
      [] OTHER -> 0

\* the promises whose component is still mounted
Mounted(a, m, ps) ==
    { p \in ps :
        CASE p.owner = "machine" -> m.problem = p.problem /\ m.isFetching
          [] p.owner = "dream" -> a.activeTab = "Dream Company"
          [] p.owner = "insights" -> a.activeTab = "Company Insights"
          [] p.owner = "resume" -> a.activeTab = "Resume Analyzer"
          [] OTHER -> TRUE }

\* the next state: App a, and the views m, d, i, r as far as they stay mounted
SetApp(a, m, d, i, r, ps, n, f) ==
    LET d1 == IF a.activeTab = "Dream Company" THEN d ELSE DreamInitial
        m1 == IF MachineProblem(a, d1) = m.problem
              THEN m
              ELSE MachineInitial(MachineProblem(a, d1))
    IN /\ app' = a
       /\ dream' = d1
       /\ machine' = m1
       /\ insightsView' = IF a.activeTab = "Company Insights" THEN i ELSE InsightsInitial
       /\ resumeView' = IF a.activeTab = "Resume Analyzer" THEN r ELSE ResumeInitial
       /\ promises' = Mounted(a, m1, ps)
       /\ requests' = n
       /\ failed' = [f EXCEPT !.dream = IF a.activeTab = "Dream Company" THEN @ ELSE Null,
                              !.insights = IF a.activeTab = "Company Insights" THEN @ ELSE Null]
       /\ UNCHANGED <<genVars, chatVars, pureVars>>

\* a service function is called: a promise, and an entry in the history
Invoked(ps, owner, fn, inputs, problem) ==
    ps \cup { [id |-> requests + 1, owner |-> owner, op |-> fn, inputs |-> inputs,
               problem |-> problem] }

\* part_000 65-92: handleGenerate up to its await
handleGenerate ==
    IF Blank(app.jobRole)
    THEN SetApp([app EXCEPT !.error = EnterJobRoleMessage], machine, dream, insightsView,
                resumeView, promises, requests,
                [failed EXCEPT !.generate = Null])
    ELSE SetApp([app EXCEPT !.isLoading = TRUE, !.error = "", !.prepData = Null],
                machine, dream, insightsView, resumeView,
                Invoked(promises, "generate", "generateFullInterviewPrep",
                        [jobRole |-> app.jobRole], 0),
                requests + 1, [failed EXCEPT !.generate = Null])

\* the job role field of Home (Home.tsx 52, setJobRole)
SetJobRole(r) ==
    /\ app.activeTab = "Home"
    /\ r # app.jobRole
    /\ SetApp([app EXCEPT !.jobRole = r], machine, dream, insightsView, resumeView,
              promises, requests, failed)

\* the form of Home is submitted (part_000 98-101, Home.tsx 52)
HomeSubmit ==
    /\ app.activeTab = "Home"
    /\ ~app.isLoading
    /\ requests < MaxRequests
    /\ handleGenerate

\* the retry of the error of Home (Home.tsx 55)
HomeRetry ==
    /\ app.activeTab = "Home"
    /\ app.error # ""
    /\ requests < MaxRequests
    /\ handleGenerate

\* the retry of the error of a data-dependent tab (part_000 158)
DataTabRetry ==
    /\ app.activeTab \in {"Q&A", "Practical Challenges"}
    /\ DataTabContent(app) = "error"
    /\ requests < MaxRequests
    /\ handleGenerate

\* part_000 107-127: handleRefresh, from the Refresh button of a
\* data-dependent tab (InterviewPrepDisplay.tsx 45, part_005 365)
AppHandleRefresh ==
    /\ app.activeTab \in {"Q&A", "Practical Challenges"}
    /\ DataTabContent(app) = "content"
    /\ ~app.isRefreshing
    /\ requests < MaxRequests
    /\ IF Blank(app.jobRole)
       THEN UNCHANGED vars
       ELSE SetApp([app EXCEPT !.isRefreshing = TRUE, !.error = ""],
                   machine, dream, insightsView, resumeView,
                   Invoked(promises, "refresh", "generateFullInterviewPrep",
                           [jobRole |-> app.jobRole], 0),
                   requests + 1, [failed EXCEPT !.generate = Null])

\* part_000 75-82 and 91: the call of handleGenerate returns
GenerateResolves(p) ==
    /\ p \in promises /\ p.owner = "generate"
    /\ SetApp([app EXCEPT !.prepData = ResultOf(p), !.activeTab = "Q&A", !.isLoading = FALSE],
              machine, dream, insightsView, resumeView, promises \ {p}, requests, failed)

\* part_000 83-91: the call of handleGenerate throws
GenerateRejects(p, message) ==
    /\ p \in promises /\ p.owner = "generate"
    /\ SetApp([app EXCEPT !.error = message, !.isLoading = FALSE],
              machine, dream, insightsView, resumeView, promises \ {p}, requests,
              [failed EXCEPT !.generate = p.inputs])

\* mutant of RefreshResolves: the refreshed questions are written into the
\* aggregate on display instead of replacing it
RefreshResolvesMerges(p) ==
    /\ p \in promises /\ p.owner = "refresh"
    /\ SetApp([app EXCEPT !.prepData = IF @ = Null THEN ResultOf(p)
                                       ELSE [@ EXCEPT !.inputs = p.inputs],
                          !.isRefreshing = FALSE],
              machine, dream, insightsView, resumeView, promises \ {p}, requests, failed)

\* part_000 114-117 and 125: the call of handleRefresh returns
RefreshResolves(p) ==
    /\ p \in promises /\ p.owner = "refresh"
    /\ SetApp([app EXCEPT !.prepData = ResultOf(p), !.isRefreshing = FALSE],
              machine, dream, insightsView, resumeView, promises \ {p}, requests, failed)

\* part_000 118-125: the call of handleRefresh throws
RefreshRejects(p, message) ==
    /\ p \in promises /\ p.owner = "refresh"
    /\ SetApp([app EXCEPT !.error = message, !.isRefreshing = FALSE],
              machine, dream, insightsView, resumeView, promises \ {p}, requests,
              [failed EXCEPT !.generate = p.inputs])

\* part_005 320-329: the View Solution Guide button is on screen
ShowSolutionRendered(m) ==
    m.problem # 0 /\ m.solution = Null /\ ~m.isFetching /\ m.error = ""

\* part_005 296-311: handleShowSolution up to its await
handleShowSolution ==
    /\ ShowSolutionRendered(machine)
    /\ requests < MaxRequests
    /\ SetApp(app, [machine EXCEPT !.isFetching = TRUE, !.error = ""], dream, insightsView,
              resumeView,
              Invoked(promises, "machine", "generateMachineCodingSolution",
                      [problem |-> machine.problem], machine.problem),
              requests + 1, failed)

\* part_005 300-301 and 309: the solution arrives
SolutionResolves(p) ==
    /\ p \in promises /\ p.owner = "machine"
    /\ SetApp(app, [machine EXCEPT !.solution = ResultOf(p), !.isFetching = FALSE], dream,
              insightsView, resumeView, promises \ {p}, requests, failed)

\* part_005 302-309: the call throws
SolutionRejects(p, message) ==
    /\ p \in promises /\ p.owner = "machine"
    /\ SetApp(app, [machine EXCEPT !.error = message, !.isFetching = FALSE], dream,
              insightsView, resumeView, promises \ {p}, requests, failed)

(***************************************************************************)
(* DreamCompanyView (RandomizeChallengesView.tsx).                         *)
(***************************************************************************)
\* lines 46-69: generateSet(role, diff) up to its await
generateSet(role, diff) ==
    IF Blank(role)
    THEN SetApp(app, machine, [dream EXCEPT !.error = EnterDreamRoleMessage], insightsView,
                resumeView, promises, requests,
                [failed EXCEPT !.dream = Null])
    ELSE SetApp(app, machine,
                [dream EXCEPT !.isLoading = TRUE, !.error = "", !.data = Null],
                insightsView, resumeView,
                Invoked(promises, "dream", "generateRandomizedPrepSet",
                        [jobRole |-> role, difficulty |-> diff], 0),
                requests + 1, [failed EXCEPT !.dream = Null])

\* the job role field (lines 107-115), disabled while loading
DreamSetJobRoleInput(r) ==
    /\ app.activeTab = "Dream Company"
    /\ ~dream.isLoading
    /\ r # dream.jobRoleInput
    /\ SetApp(app, machine, [dream EXCEPT !.jobRoleInput = r], insightsView, resumeView,
              promises, requests, failed)

\* a difficulty button (lines 120-134), disabled while loading
DreamSetDifficulty(level) ==
    /\ app.activeTab = "Dream Company"
    /\ ~dream.isLoading
    /\ level # dream.difficulty
    /\ SetApp(app, machine, [dream EXCEPT !.difficulty = level], insightsView, resumeView,
              promises, requests, failed)

\* handleSubmit (lines 71-74), from the Generate Prep button (lines 96-103)
DreamHandleSubmit ==
    /\ app.activeTab = "Dream Company"
    /\ ~dream.isLoading /\ ~Blank(dream.jobRoleInput)
    /\ requests < MaxRequests
    /\ generateSet(dream.jobRoleInput, dream.difficulty)

\* handleRetry (lines 76-78), from the retry of the error (line 143)
DreamHandleRetry ==
    /\ app.activeTab = "Dream Company"
    /\ dream.error # ""
    /\ requests < MaxRequests
    /\ generateSet(dream.jobRoleInput, dream.difficulty)

\* handleRefresh (lines 80-84), from the Refresh Set button (lines 153-162)
DreamHandleRefresh ==
    /\ app.activeTab = "Dream Company"
    /\ dream.data # Null /\ ~dream.isLoading
    /\ requests < MaxRequests
    /\ IF dream.lastGeneratedParams # Null
       THEN generateSet(dream.lastGeneratedParams.jobRole,
                        dream.lastGeneratedParams.difficulty)
       ELSE UNCHANGED vars

\* lines 55-59 and 67: the set arrives
DreamResolves(p) ==
    /\ p \in promises /\ p.owner = "dream"
    /\ SetApp(app, machine,
              [dream EXCEPT !.data = ResultOf(p), !.lastGeneratedParams = p.inputs,
                            !.isLoading = FALSE],
              insightsView, resumeView, promises \ {p}, requests, failed)

\* lines 60-67: the call throws
DreamRejects(p, message) ==
    /\ p \in promises /\ p.owner = "dream"
    /\ SetApp(app, machine, [dream EXCEPT !.error = message, !.isLoading = FALSE],
              insightsView, resumeView, promises \ {p}, requests,
              [failed EXCEPT !.dream = p.inputs])

(***************************************************************************)
(* CompanyInsightsView (part_007).                                         *)
(***************************************************************************)
\* the positions of '@' in a job role
AtSigns(role) == { k \in DOMAIN role : role[k] = "@" }

Least(S) == CHOOSE k \in S : \A j \in S : k <= j

\* part_007 32-39: extractCompanyName
extractCompanyName(role) ==
    IF role = << >> \/ AtSigns(role) = {} THEN << >>
    ELSE LET first == Least(AtSigns(role))
             later == { k \in AtSigns(role) : k > first }
             stop == IF later = {} THEN Len(role) + 1 ELSE Least(later)
         IN Trim(SubSeq(role, first + 1, stop - 1))

\* what the user may type in the search bar
SearchTerms == { << >>, <<"Acme">>, <<"Beta">> }

\* part_007 52-70: fetchInsights(name) up to its await, on the view state i
fetchInsights(i, name) ==
    IF name = << >>
    THEN SetApp([app EXCEPT !.activeTab = "Company Insights"], machine, dream, i, resumeView,
                promises, requests, failed)
    ELSE SetApp([app EXCEPT !.activeTab = "Company Insights"], machine, dream,
                [i EXCEPT !.isLoading = TRUE, !.error = "", !.insights = Null,
                          !.searchedCompany = name],
                resumeView,
                Invoked(promises, "insights", "generateCompanyInsights",
                        [companyName |-> name], 0),
                requests + 1, [failed EXCEPT !.insights = Null])

\* the search bar (part_007 158-165), disabled while loading
InsightsSetSearchTerm(t) ==
    /\ app.activeTab = "Company Insights"
    /\ ~insightsView.isLoading
    /\ t # insightsView.searchTerm
    /\ SetApp(app, machine, dream, [insightsView EXCEPT !.searchTerm = t], resumeView,
              promises, requests, failed)

\* handleSearch (part_007 92-95), from the Search button (166-174)
InsightsHandleSearch ==
    /\ app.activeTab = "Company Insights"
    /\ ~insightsView.isLoading /\ ~Blank(insightsView.searchTerm)
    /\ requests < MaxRequests
    /\ fetchInsights(insightsView, insightsView.searchTerm)

\* handleRetry (part_007 98-102), from the retry of the error (111-113)
InsightsHandleRetry ==
    /\ app.activeTab = "Company Insights"
    /\ ~insightsView.isLoading /\ insightsView.error # ""
    /\ requests < MaxRequests
    /\ fetchInsights(insightsView, insightsView.searchedCompany)

\* part_007 59-60 and 68: the briefing arrives
InsightsResolves(p) ==
    /\ p \in promises /\ p.owner = "insights"
    /\ SetApp(app, machine, dream,
              [insightsView EXCEPT !.insights = ResultOf(p), !.isLoading = FALSE],
              resumeView, promises \ {p}, requests, failed)

\* part_007 61-68: the call throws
InsightsRejects(p, message) ==
    /\ p \in promises /\ p.owner = "insights"
    /\ SetApp(app, machine, dream,
              [insightsView EXCEPT !.error = message, !.isLoading = FALSE],
              resumeView, promises \ {p}, requests,
              [failed EXCEPT !.insights = p.inputs])

(***************************************************************************)
(* ResumeAnalyzerView (part_004).                                          *)
(***************************************************************************)
\* what the user may paste as a resume or as a job description
PastedTexts == { << >>, <<"text">> }

BothRequiredMessage == "Please paste both your resume and the job description."

\* the two text areas (part_004 208-228), disabled while loading
ResumeSetTexts(res, jd) ==
    /\ app.activeTab = "Resume Analyzer"
    /\ ~resumeView.isLoading
    /\ <<res, jd>> # <<resumeView.resume, resumeView.jobDescription>>
    /\ SetApp(app, machine, dream, insightsView,
              [resumeView EXCEPT !.resume = res, !.jobDescription = jd],
              promises, requests, failed)

\* the Analyze Resume button is enabled (part_004 232-234)
AnalyzeEnabled(r) == ~r.isLoading /\ ~Blank(r.resume) /\ ~Blank(r.jobDescription)

\* handleAnalyze (part_004 118-138) up to its await
handleAnalyze ==
    /\ app.activeTab = "Resume Analyzer"
    /\ AnalyzeEnabled(resumeView)
    /\ requests < MaxRequests
    /\ IF Blank(resumeView.resume) \/ Blank(resumeView.jobDescription)
       THEN SetApp(app, machine, dream, insightsView,
                   [resumeView EXCEPT !.error = BothRequiredMessage], promises, requests, failed)
       ELSE SetApp(app, machine, dream, insightsView,
                   [resumeView EXCEPT !.isLoading = TRUE, !.error = "", !.analysis = Null],
                   Invoked(promises, "resume", "analyzeResume",
                           [resume |-> resumeView.resume,
                            jobDescription |-> resumeView.jobDescription], 0),
                   requests + 1, failed)

\* part_004 127-128 and 136: the analysis arrives
AnalysisResolves(p) ==
    /\ p \in promises /\ p.owner = "resume"
    /\ SetApp(app, machine, dream, insightsView,
              [resumeView EXCEPT !.analysis = ResultOf(p), !.isLoading = FALSE],
              promises \ {p}, requests, failed)

\* part_004 129-136: the call throws
AnalysisRejects(p, message) ==
    /\ p \in promises /\ p.owner = "resume"
    /\ SetApp(app, machine, dream, insightsView,
              [resumeView EXCEPT !.error = message, !.isLoading = FALSE],
              promises \ {p}, requests, failed)

\* a click on an enabled tab of the sidebar (Tabs.tsx 66-70).  Mounting
\* CompanyInsightsView runs its effect (part_007 76-89) on the job role of App
SetActiveTab(tab) ==
    /\ tab # app.activeTab
    /\ ~isDisabled(tab, AppDisabled(app))
    /\ IF tab = "Company Insights"
       THEN LET name == extractCompanyName(app.jobRole) IN
            /\ name # << >> => requests < MaxRequests
            /\ fetchInsights([InsightsInitial EXCEPT !.searchTerm = name], name)
       ELSE SetApp([app EXCEPT !.activeTab = tab], machine, dream, insightsView, resumeView,
                   promises, requests, failed)

AppNext ==
    \/ \E r \in TypedRoles : SetJobRole(r)
    \/ HomeSubmit
    \/ HomeRetry
    \/ DataTabRetry
    \/ AppHandleRefresh
    \/ \E p \in promises : GenerateResolves(p)
    \/ \E p \in promises, message \in FailureMessages : GenerateRejects(p, message)
    \/ \E p \in promises : RefreshResolves(p)
    \/ \E p \in promises, message \in FailureMessages : RefreshRejects(p, message)
    \/ \E tab \in Tabs : SetActiveTab(tab)
    \/ handleShowSolution
    \/ \E p \in promises : SolutionResolves(p)
    \/ \E p \in promises, message \in FailureMessages : SolutionRejects(p, message)
    \/ \E r \in TypedRoles : DreamSetJobRoleInput(r)
    \/ \E level \in DreamDifficulties : DreamSetDifficulty(level)
    \/ DreamHandleSubmit
    \/ DreamHandleRetry
    \/ DreamHandleRefresh
    \/ \E p \in promises : DreamResolves(p)
    \/ \E p \in promises, message \in FailureMessages : DreamRejects(p, message)
    \/ \E t \in SearchTerms : InsightsSetSearchTerm(t)
    \/ InsightsHandleSearch
    \/ InsightsHandleRetry
    \/ \E p \in promises : InsightsResolves(p)
    \/ \E p \in promises, message \in FailureMessages : InsightsRejects(p, message)
    \/ \E res \in PastedTexts, jd \in PastedTexts : ResumeSetTexts(res, jd)
    \/ handleAnalyze
    \/ \E p \in promises : AnalysisResolves(p)
    \/ \E p \in promises, message \in FailureMessages : AnalysisRejects(p, message)

(***************************************************************************)
(* Specifications.                                                         *)
(***************************************************************************)
\* the chat views before anything is mounted
ChatIdle(v) ==
    /\ view = v
    /\ started = FALSE
    /\ chat = 0
    /\ chatsCreated = 0
    /\ messages = << >>
    /\ isThinking = (v = "doubt")
    /\ processingMessage = FALSE
    /\ processingExplanation = FALSE
    /\ lastProcessedMessage = ""
    /\ textToExplain = ""
    /\ sends = {}
    /\ crashed = FALSE
    /\ dispatched = << >>

\* the generators, with the chat views idle
ClassifyIdle == thrown = Null /\ friendlyError = Null

RoleIdle == roleText = << >> /\ roleCategory = "none"

PureIdle == ClassifyIdle /\ RoleIdle

\* App as it is first rendered, on the Home tab
AppIdle ==
    /\ app = AppInitial
    /\ machine = MachineInitial(0)
    /\ dream = DreamInitial
    /\ insightsView = InsightsInitial
    /\ resumeView = ResumeInitial
    /\ promises = {}
    /\ requests = 0
    /\ failed = NoneFailed

\* the tokens of the error messages handed to handleApiError: its keywords in
\* two spellings, and a text without any keyword
ClassifyTokens ==
    { "api key not valid", "API key not valid", "quota", "Quota", "429", "400", "500",
      "503", "safety", "SAFETY", "Network down" }

ClassifyMessages == UNION { [1..n -> ClassifyTokens] : n \in 0..MaxMessageTokens }

\* what handleApiError may be given: an Error with or without a message, a
\* thrown value that is no Error, null, undefined
ClassifyInputs == { Error(m) : m \in ClassifyMessages } \cup { NonError, Null, Undefined }

SpecClassifyInit ==
    /\ GenInit
    /\ ChatIdle("mock")
    /\ thrown \in ClassifyInputs
    /\ friendlyError = Null
    /\ RoleIdle
    /\ AppIdle

\* handleApiError(thrown, context) (line 43)
CallHandleApiError ==
    /\ friendlyError = Null
    /\ friendlyError' = handleApiError(thrown)
    /\ UNCHANGED <<thrown, genVars, chatVars, roleVars, appVars>>

SpecClassifyNext == CallHandleApiError

SpecClassify == SpecClassifyInit /\ [][SpecClassifyNext]_vars

(***************************************************************************)
(* getRoleCategory on its own: job roles that hold a content keyword in    *)
(* some letter case, with or without text around it, and job roles that    *)
(* miss a keyword by one character.                                        *)
(***************************************************************************)
\* String.prototype.toUpperCase on the letters of the keywords
UpperOf ==
    "a" :> "A" @@ "b" :> "B" @@ "c" :> "C" @@ "d" :> "D" @@ "e" :> "E" @@
    "f" :> "F" @@ "g" :> "G" @@ "h" :> "H" @@ "i" :> "I" @@ "j" :> "J" @@
    "k" :> "K" @@ "l" :> "L" @@ "m" :> "M" @@ "n" :> "N" @@ "o" :> "O" @@
    "p" :> "P" @@ "q" :> "Q" @@ "r" :> "R" @@ "s" :> "S" @@ "t" :> "T" @@
    "u" :> "U" @@ "v" :> "V" @@ "w" :> "W" @@ "x" :> "X" @@ "y" :> "Y" @@
    "z" :> "Z"

LetterCases == {"lower", "UPPER", "Capital", "aLtErNaTe"}

\* a keyword as a user may type it
Cased(kw, c) ==
    [i \in DOMAIN kw |->
        CASE c = "UPPER" -> UpperOf[kw[i]]
          [] c = "Capital" -> IF i = 1 THEN UpperOf[kw[i]] ELSE kw[i]
          [] c = "aLtErNaTe" -> IF i % 2 = 0 THEN UpperOf[kw[i]] ELSE kw[i]
          [] OTHER -> kw[i]]

\* a keyword mistyped: its i-th character left out
Without(kw, i) == SubSeq(kw, 1, i - 1) \o SubSeq(kw, i + 1, Len(kw))

RoleCores ==
    { Cased(kw, c) : kw \in contentKeywords, c \in LetterCases }
      \cup UNION { { Without(Cased(kw, c), i) : i \in DOMAIN kw } :
                    kw \in contentKeywords, c \in {"lower", "Capital"} }

RolePrefixes == { << >>, <<"S", "r", " ">>, <<"x">> }
RoleSuffixes == { << >>, <<"s">> }

RoleTexts ==
    JobRoles \cup { pre \o core \o suf :
                      pre \in RolePrefixes, core \in RoleCores, suf \in RoleSuffixes }

SpecRoleInit ==
    /\ GenInit
    /\ ChatIdle("mock")
    /\ ClassifyIdle
    /\ AppIdle
    /\ roleText \in RoleTexts
    /\ roleCategory = "none"

\* getRoleCategory(jobRole) (line 315)
CallGetRoleCategory ==
    /\ roleCategory = "none"
    /\ roleCategory' = getRoleCategory(roleText)
    /\ UNCHANGED <<roleText, genVars, chatVars, classifyVars, appVars>>

SpecRoleNext == CallGetRoleCategory

SpecRole == SpecRoleInit /\ [][SpecRoleNext]_vars

SpecGenInit == GenInit /\ ChatIdle("mock") /\ PureIdle /\ AppIdle

SpecGen == SpecGenInit /\ [][GenNext]_vars

ChatInit == GenInit /\ (\E v \in {"mock", "doubt"} : ChatIdle(v)) /\ PureIdle /\ AppIdle

ChatNext == MockNext \/ DoubtNext

SpecChat == ChatInit /\ [][ChatNext]_vars

\* DoubtBuster opened by an Explain click, with the Explain buttons of the
\* code blocks of its transcript; the user types nothing
SpecExplainInit == GenInit /\ ChatIdle("doubt") /\ PureIdle /\ AppIdle

SpecExplainNext ==
    \/ \E t \in ExplainTexts \cup {""} : DoubtMount(t)
    \/ \E t \in ExplainTexts : DoubtExplainClick(t)
    \/ \E i \in DOMAIN messages : DoubtRetry(i)
    \/ \E x \in sends : DoubtStreamOpens(x)
    \/ \E x \in sends : DoubtChunkArrives(x)
    \/ \E x \in sends : DoubtStreamEnds(x)
    \/ \E x \in sends, e \in StreamErrors : DoubtStreamFails(x, e)

SpecExplain == SpecExplainInit /\ [][SpecExplainNext]_vars

SpecAppInit == GenInit /\ apiKey /\ ChatIdle("mock") /\ PureIdle /\ AppIdle

SpecApp == SpecAppInit /\ [][AppNext]_vars

(***************************************************************************)
(* Claims about the retry loop and the orchestrators (SpecGen).            *)
(***************************************************************************)
\* the attempts logged so far that failed for good: the last allowed attempt
FinalFailures ==
    {i \in DOMAIN attemptLog : ~attemptLog[i].ok /\ attemptLog[i].attempt = maxRetries}

EveryAttemptInvokedAndFailed ==
    /\ Len(attemptLog) = maxRetries
    /\ \A i \in DOMAIN attemptLog : ~attemptLog[i].ok /\ attemptLog[i].invoked

\* C1: when all maxRetries = N >= 1 attempts of generateAndParse fail on a
\* service error or on an unusable response text, the service has been
\* invoked exactly N times and generateAndParse has thrown
\* handleApiError(the failure of the last attempt), not that failure itself
\* and not a value; and it throws in no other case.
C1_ExhaustedRetriesThrowClassified ==
    op = "direct" =>
        /\ Len(callLog) <= maxRetries
        /\ EveryAttemptInvokedAndFailed =>
              /\ pc = "done"
              /\ outcome.kind = "thrown"
              /\ outcome.error = handleApiError(lastFailure)
              /\ outcome.error # lastFailure
              /\ Len(callLog) = maxRetries
              /\ inFlight = 0
        /\ (outcome.kind = "thrown" /\ apiKey) => EveryAttemptInvokedAndFailed

C1_Witness ==
    /\ op = "direct"
    /\ maxRetries = 3
    /\ pc = "done"
    /\ outcome.kind = "thrown"
    /\ Len(callLog) = 3
    /\ lastFailure = Error(<<InvalidFormatMessage>>)

\* C2: a successful attempt k of generateAndParse is its last one: attempts
\* 1..k-1 failed, k <= maxRetries, the service has been invoked exactly k
\* times, and the call has returned the value parsed from attempt k's text.
C2_SuccessEndsTheLoop ==
    op = "direct" =>
        \A k \in DOMAIN attemptLog :
            attemptLog[k].ok =>
                /\ k = Len(attemptLog)
                /\ k <= maxRetries
                /\ attemptLog[k].attempt = k
                /\ \A j \in 1..(k - 1) : ~attemptLog[j].ok
                /\ Len(callLog) = k
                /\ inFlight = 0
                /\ pc = "done"
                /\ outcome = [kind |-> "returned", value |-> JSONParse(Trim(lastText)).value]

C2_Witness ==
    /\ op = "direct"
    /\ maxRetries = 3
    /\ Len(attemptLog) = 3
    /\ attemptLog[3].ok
    /\ Len(callLog) = 3
    /\ outcome.kind = "returned"

\* C3: in generateFullInterviewPrep and generateRandomizedPrepSet, once a
\* sub-call has failed its last attempt the operation has thrown one Error and
\* carries no aggregate, however many sub-calls succeeded before; no attempt
\* and no service request follows the failure; an aggregate is returned only
\* when every sub-call succeeded.
C3_NoPartialResult ==
    op \in Orchestrators =>
        /\ \A i \in FinalFailures :
              /\ i = Len(attemptLog)
              /\ pc = "done"
              /\ inFlight = 0
              /\ outcome.kind = "thrown"
              /\ outcome.error.kind = "Error"
              /\ DOMAIN outcome = {"kind", "error"}
              /\ apiKey => callLog[Len(callLog)] = SubCalls(op)[attemptLog[i].sub]
        /\ outcome.kind = "returned" =>
              /\ FinalFailures = {}
              /\ Len(results) = Len(SubCalls(op))

C3_Witness ==
    /\ op = "full"
    /\ pc = "done"
    /\ outcome.kind = "thrown"
    /\ Len(results) = 1
    /\ callLog = <<"questions", "challenges", "challenges">>

\* the place of a sub-call in the declared order of generateFullInterviewPrep
FullRank(c) ==
    CASE c = "questions" -> 1 [] c = "challenges" -> 2 [] c = "machine" -> 3 [] OTHER -> 0

\* C4: in generateFullInterviewPrep the service requests are issued in the
\* order questions, challenges, machine-coding; a request of sub-call n + 1
\* is issued only when sub-calls 1..n have returned; and at most one request
\* is in flight.
C4_SequentialFixedOrder ==
    op = "full" =>
        /\ inFlight <= 1
        /\ (inFlight = 1) = (pc = "inflight")
        /\ \A i \in DOMAIN callLog :
              /\ FullRank(callLog[i]) \in 1..3
              /\ \A j \in 1..(i - 1) : FullRank(callLog[j]) <= FullRank(callLog[i])
        /\ callLog # << >> =>
              /\ FullRank(callLog[Len(callLog)]) <= Len(results) + 1
              /\ pc # "done" => FullRank(callLog[Len(callLog)]) = sub

C4_Witness ==
    /\ op = "full"
    /\ pc = "inflight"
    /\ callLog = <<"questions", "questions", "challenges", "machine">>

(***************************************************************************)
(* Claims about the chat views (SpecChat).                                 *)
(***************************************************************************)
\* the sends of session ch that have not settled
InFlightOn(ch) == {x \in sends : x.chat = ch}

\* the step is handleSendMessage with input m, and m passed its guard
SendAccepted(m) ==
    \/ view = "mock" /\ ~MockSendRefused(ChatState, m) /\ MockHandleSendMessage(m)
    \/ view = "doubt" /\ ~DoubtSendRefused(ChatState, m) /\ DoubtHandleSendMessage(m)

\* the step is a click on the Retry button of messages[i]
RetryClicked(i) == MockRetry(i) \/ DoubtRetry(i)

\* the step is the failure of send x with error
StreamFailed(x, error) == MockStreamFails(x, error) \/ DoubtStreamFails(x, error)

\* the user messages of the transcript whose text is m
UserEntries(m) == {i \in DOMAIN messages : messages[i] = UserMessage(m)}

\* the sendMessageStream calls so far that carried m and were no retry
SentOnce(m) == {j \in DOMAIN dispatched : dispatched[j].message = m /\ ~dispatched[j].isRetry}

\* the sendMessageStream calls so far on session ch
DispatchedOn(ch) == {j \in DOMAIN dispatched : dispatched[j].chat = ch}

Last(ms) == ms[Len(ms)]

\* ms without its i-th entry
RemoveAt(ms, i) == SubSeq(ms, 1, i - 1) \o SubSeq(ms, i + 1, Len(ms))

\* C5: in a MockInterview session, while a send of the session is in flight,
\* a submission of the input form (same text or another) makes no service
\* call and leaves the length of the transcript as it is.
C5_SendInFlightIgnored ==
    [][\A m \in UserInputs :
          (view = "mock" /\ chat # 0 /\ InFlightOn(chat) # {} /\ MockHandleSendMessage(m))
              => (dispatched' = dispatched /\ Len(messages') = Len(messages))]_vars

\* C6: a chat session never has two streams open at the same moment,
\* whichever of the input form, the Explain-This effect and the retry
\* buttons started them.
C6_AtMostOneInFlight ==
    \A x, y \in sends :
        (x.chat = y.chat /\ x.phase = "streaming" /\ y.phase = "streaming") => x = y

\* C7 as stated: a submission whose text equals the message of the last
\* sendMessageStream call of the session makes no service call.
C7_DuplicateOfLastDispatchedDropped ==
    [][\A m \in UserTexts :
          (/\ chat # 0
           /\ DispatchedOn(chat) # {}
           /\ LET last == CHOOSE j \in DispatchedOn(chat) : \A k \in DispatchedOn(chat) : k <= j
              IN dispatched[last].message = m
           /\ SendAccepted(m))
              => dispatched' = dispatched]_vars

\* C7 (amended): in both views a submission whose text equals
\* lastProcessedMessage, the text of the last send that went through
\* processAIResponse without the retry flag, makes no service call, and a
\* click on a Retry button always makes exactly one, flagged as retry, with
\* the message of the button.
C7_DuplicateOfLastProcessedDropped ==
    [][/\ \A m \in UserTexts :
             (m = lastProcessedMessage /\ SendAccepted(m)) => dispatched' = dispatched
       /\ \A i \in DOMAIN messages :
             RetryClicked(i) =>
                 /\ Len(dispatched') = Len(dispatched) + 1
                 /\ SubSeq(dispatched', 1, Len(dispatched)) = dispatched
                 /\ Last(dispatched').isRetry
                 /\ Last(dispatched').chat = messages[i].onRetry.chat
                 /\ messages[i].onRetry.kind = "process"
                        => Last(dispatched').message = messages[i].onRetry.message]_vars

\* a submission of m was dropped: it is the last entry of the transcript,
\* nothing is in flight, and the transcript holds m more often than it was sent
C7_Witness ==
    /\ sends = {}
    /\ ~isThinking
    /\ messages # << >>
    /\ \E m \in UserTexts :
          /\ m = lastProcessedMessage
          /\ Last(messages) = UserMessage(m)
          /\ Cardinality(UserEntries(m)) > Cardinality(SentOnce(m))

\* the transcript ends with the partial model message of send x
PartialOf(x) ==
    /\ x.kind = "process"
    /\ x.phase = "streaming"
    /\ x.n > 0
    /\ messages # << >>
    /\ Last(messages).role = "model"
    /\ ~Last(messages).isError
    /\ Last(messages).text # << >>

\* the classified text of error is how text begins
Classified(text, error) ==
    LET friendly == handleApiError(error).message IN
    /\ Len(text) > Len(friendly)
    /\ SubSeq(text, 1, Len(friendly)) = friendly

C9_RetryRemovesOnlyItsError ==
    [][\A i \in DOMAIN messages :
          (messages[i].onRetry.kind = "process" /\ RetryClicked(i))
              => messages' = RemoveAt(messages, i)]_vars

\* C10: the transcript holds no user message that was never sent: a text
\* stands in it at most as often as it went to the service.
C10_EveryUserMessageDispatched ==
    \A m \in UserTexts : Cardinality(UserEntries(m)) <= Cardinality(SentOnce(m))

(***************************************************************************)
(* Claims about the public generation functions (SpecGen).                 *)
(***************************************************************************)
\* the function called has thrown because of what the service or the client
\* did, not because of its arguments
FailedOnService == outcome.kind = "thrown" /\ lastFailure # Null

\* handleApiError gives error one of its fixed sentences, not the echo of its text
FixedSentenceFor(error) == Head(handleApiError(error).message) # UnexpectedPrefix

\* C11: a failure of generateFullInterviewPrep, generateRandomizedPrepSet,
\* generateMachineCodingSolution or analyzeResume reaches the caller as the
\* fixed sentence of the category of the underlying error, whenever that
\* error has one.
C11_OneFixedSentence ==
    (op \in Wrappers /\ FailedOnService /\ FixedSentenceFor(lastFailure))
        => outcome.error = handleApiError(lastFailure)

(***************************************************************************)
(* Claims about handleApiError (SpecClassify).                             *)
(***************************************************************************)
\* the policy table: the keywords of each rule and its sentence, in order
PolicyTable ==
    << [keywords |-> {"api key not valid"}, sentence |-> SentenceInvalidKey],
       [keywords |-> {"quota", "429"}, sentence |-> SentenceQuota],
       [keywords |-> {"400"}, sentence |-> SentenceInvalidRequest],
       [keywords |-> {"500", "503"}, sentence |-> SentenceUnavailable],
       [keywords |-> {"safety"}, sentence |-> SentenceSafety] >>

\* the keyword a token spells, in whatever case
KeywordSpelled(tok) ==
    CASE tok \in {"api key not valid", "API key not valid"} -> "api key not valid"
      [] tok \in {"quota", "Quota"} -> "quota"
      [] tok \in {"safety", "SAFETY"} -> "safety"
      [] OTHER -> tok

\* the rules of the table that message matches
RulesMatching(message) ==
    { i \in DOMAIN PolicyTable :
        \E k \in DOMAIN message : KeywordSpelled(message[k]) \in PolicyTable[i].keywords }

\* the reference: the sentence of the first matching rule, the echo of the
\* message when no rule matches, the generic sentence when there is no message
ReferenceTable(error) ==
    IF error.kind # "Error" \/ error.message = << >>
    THEN Error(<<SentenceGeneric>>)
    ELSE LET hits == RulesMatching(error.message) IN
         IF hits = {}
         THEN Error(<<UnexpectedPrefix>> \o error.message)
         ELSE Error(<<PolicyTable[CHOOSE i \in hits : \A j \in hits : i <= j].sentence>>)

\* C12: for every message built from the keywords, in either spelling and in
\* any combination, and for every value without a message, handleApiError
\* returns what the reference table says: the first matching rule wins.
C12_MatchesReferenceTable ==
    friendlyError # Null => friendlyError = ReferenceTable(thrown)

\* a message whose first token matches a later rule than its second token
C12_Witness ==
    /\ thrown = Error(<<"400", "Quota">>)
    /\ friendlyError = Error(<<SentenceQuota>>)

\* C13: with no API key configured, a generation function called with valid
\* arguments fails with the invalid-credential sentence, and no request has
\* gone to the service.
C13_MissingKeyIsInvalidCredential ==
    (~apiKey /\ op \in Wrappers \cup {"insights"} /\ FailedOnService)
        => /\ outcome.error = Error(<<SentenceInvalidKey>>)
           /\ callLog = << >>

\* text is empty or made of white space only
OnlyWhiteSpace(text) == \A i \in DOMAIN text : text[i] = " "

\* the validation message of the function called when one of its required
\* arguments is empty or white space, "" when they are all given
RequiredButBlank ==
    CASE op \in {"full", "random"} ->
           IF OnlyWhiteSpace(args.jobRole) THEN JobRoleRequiredMessage ELSE ""
      [] op = "solution" ->
           IF OnlyWhiteSpace(args.problemTitle) \/ OnlyWhiteSpace(args.problemDescription)
           THEN SolutionRequiredMessage ELSE ""
      [] op = "insights" ->
           IF OnlyWhiteSpace(args.companyName) THEN CompanyRequiredMessage ELSE ""
      [] op = "resume" ->
           IF OnlyWhiteSpace(args.resume) \/ OnlyWhiteSpace(args.jobDescription)
           THEN ResumeRequiredMessage ELSE ""
      [] OTHER -> ""

\* C14: a public generation function called with an empty or white-space
\* required argument has thrown its validation error at once: no request
\* went to the service, no attempt of the retry loop ran, no timer was set.
C14_BlankInputFailsAtOnce ==
    RequiredButBlank # "" =>
        /\ pc = "done"
        /\ outcome = [kind |-> "thrown", error |-> Error(<<RequiredButBlank>>)]
        /\ callLog = << >>
        /\ attemptLog = << >>
        /\ inFlight = 0
        /\ lastWait.kind = "none"
        /\ pauses = 0

C14_Witness ==
    /\ op = "resume"
    /\ args.resume = <<"x">>
    /\ args.jobDescription = <<" ", " ">>
    /\ apiKey
    /\ outcome.kind = "thrown"

\* the required top-level fields of questionsSchema, as the tokens of a text
QuestionsRequired == {"g", "t"}

\* value is an object with every required field of questionsSchema
ConformsToQuestions(value) ==
    /\ Head(value.json) = "{"
    /\ \A name \in QuestionsRequired : \E i \in DOMAIN value.json : value.json[i] = name

\* C15: generateFullInterviewPrep and generateRandomizedPrepSet return a
\* result only when the response of the questions sub-call had both
\* generalQuestions and technicalQuestions.
C15_NoResultFromSchemaViolation ==
    (op \in Orchestrators /\ outcome.kind = "returned") => ConformsToQuestions(results[1])

(***************************************************************************)
(* Claims about the parse step of generateAndParse (SpecGen).              *)
(***************************************************************************)
\* the latest attempt of generateAndParse settled with a response text
AttemptOnText ==
    /\ op # "insights"
    /\ attemptLog # << >>
    /\ lastResponse # NoResponse

\* C16 as stated: an attempt whose response text is empty or white space
\* only has failed with the empty-response error.
C16_BlankTextIsEmptyResponse ==
    (AttemptOnText /\ OnlyWhiteSpace(lastResponse.text))
        => /\ ~attemptLog[Len(attemptLog)].ok
           /\ lastFailure = Error(<<EmptyResponseMessage>>)

\* C16 (amended): an attempt whose response text is empty has failed with the
\* empty-response error; an attempt whose response text is not empty but
\* white space only has failed with the malformed-format error; the two
\* errors differ.
C16_EmptyTextIsEmptyResponse ==
    /\ Error(<<EmptyResponseMessage>>) # Error(<<InvalidFormatMessage>>)
    /\ (AttemptOnText /\ OnlyWhiteSpace(lastResponse.text))
          => /\ ~attemptLog[Len(attemptLog)].ok
             /\ lastFailure = IF lastResponse.text = << >>
                              THEN Error(<<EmptyResponseMessage>>)
                              ELSE Error(<<InvalidFormatMessage>>)

\* an attempt on a white-space text has failed with the malformed-format error
C16_Witness ==
    /\ AttemptOnText
    /\ lastResponse.text = <<" ">>
    /\ lastFailure = Error(<<InvalidFormatMessage>>)
    /\ pc = "backoff"

\* after its leading white space, text begins with '{' or '['
BeginsLikeJson(text) ==
    \E i \in DOMAIN text :
        /\ text[i] \in {"{", "["}
        /\ \A j \in 1..(i - 1) : text[j] = " "

C18_EveryFailureRetried ==
    (op \in Wrappers \cup {"insights"} /\ FailedOnService /\ apiKey)
        => /\ attemptLog # << >>
           /\ attemptLog[Len(attemptLog)].attempt = PublicMaxRetries

(***************************************************************************)
(* Claims about generateRandomizedPrepSet (SpecGen).                       *)
(***************************************************************************)
\* the sub-calls of generateRandomizedPrepSet in the order claimed
RandomOrder == <<"random-questions", "system-design", "random-challenges", "random-machine">>

\* log without the repetitions a retry adds: the sub-calls, not their attempts
RECURSIVE SubCallsOf(_)
SubCallsOf(log) ==
    IF Len(log) <= 1 THEN log
    ELSE IF log[Len(log)] = log[Len(log) - 1]
         THEN SubCallsOf(SubSeq(log, 1, Len(log) - 1))
         ELSE Append(SubCallsOf(SubSeq(log, 1, Len(log) - 1)), log[Len(log)])

\* C19: generateRandomizedPrepSet issues its sub-calls one after the other in
\* the order questions, system-design, challenges, machine-coding; when all
\* of them succeeded it issued exactly these 4 and returned one aggregate
\* with the four sub-results and roleCategory = getRoleCategory(jobRole),
\* which is content for the job role 'Content Writer'.
C19_RandomizedSetOfFour ==
    op = "random" =>
        /\ inFlight <= 1
        /\ Len(SubCallsOf(callLog)) <= 4
        /\ SubCallsOf(callLog) = SubSeq(RandomOrder, 1, Len(SubCallsOf(callLog)))
        /\ outcome.kind = "returned" =>
              /\ SubCallsOf(callLog) = RandomOrder
              /\ Len(results) = 4
              /\ pauses = 3
              /\ inFlight = 0
              /\ outcome.value.roleCategory = getRoleCategory(args.jobRole)
              /\ args.jobRole = ContentWriterRole => outcome.value.roleCategory = "content"
              /\ args.jobRole = EngineerRole => outcome.value.roleCategory = "tech"
              /\ ConformsToQuestions(results[1]) =>
                    /\ outcome.value.generalQuestions = [json |-> <<"[", "g", "]">>]
                    /\ outcome.value.technicalQuestions = [json |-> <<"[", "t", "]">>]
              /\ outcome.value.systemDesignQuestions = results[2]
              /\ outcome.value.codingChallenges = results[3]
              /\ outcome.value.machineCoding = results[4]

C19_Witness ==
    /\ op = "random"
    /\ args = [jobRole |-> ContentWriterRole, difficulty |-> "Senior"]
    /\ outcome.kind = "returned"
    /\ outcome.value.roleCategory = "content"
    /\ callLog = RandomOrder
    /\ ConformsToQuestions(results[1])

\* C20 as stated: the aggregate returned by generateRandomizedPrepSet has the
\* requested difficulty among its fields.
C20_AggregateCarriesDifficulty ==
    (op = "random" /\ outcome.kind = "returned")
        => /\ "difficulty" \in DOMAIN outcome.value
           /\ outcome.value.difficulty = args.difficulty

\* C20 (amended): the aggregate returned by generateRandomizedPrepSet has the
\* role category and the five fields of the sub-results, and no other field:
\* the requested difficulty is not in it.
C20_AggregateWithoutDifficulty ==
    (op = "random" /\ outcome.kind = "returned")
        => DOMAIN outcome.value =
              {"roleCategory", "generalQuestions", "technicalQuestions",
               "systemDesignQuestions", "codingChallenges", "machineCoding"}

C20_Witness ==
    /\ op = "random"
    /\ args.difficulty = "Senior"
    /\ outcome.kind = "returned"
    /\ "difficulty" \notin DOMAIN outcome.value

\* a and b are the same letter, whatever the case of a (b is in lower case)
SameLetter(a, b) == a = b \/ (b \in DOMAIN UpperOf /\ a = UpperOf[b])

\* some content keyword is spelled in text, in any letter case, from some position on
SpellsContentKeyword(text) ==
    \E kw \in contentKeywords : \E p \in 0..(Len(text) - Len(kw)) :
        \A i \in DOMAIN kw : SameLetter(text[p + i], kw[i])

\* C21: getRoleCategory returns content for every job role that contains a
\* content keyword in any letter case as a substring, and tech for every
\* other job role.
C21_ContentIffKeyword ==
    roleCategory # "none"
        => roleCategory = IF SpellsContentKeyword(roleText) THEN "content" ELSE "tech"

\* a keyword typed in capitals inside a longer job role was found, and a
\* role that misses 'editor' by one letter would be tech
C21_Witness ==
    /\ roleText = <<"S", "r", " ", "E", "D", "I", "T", "O", "R", "s">>
    /\ roleCategory = "content"
    /\ getRoleCategory(<<"S", "r", " ", "E", "d", "t", "o", "r">>) = "tech"

\* the kickoff sentence of the view on screen
KickoffOf(v) == IF v = "mock" THEN MockKickoff ELSE DoubtKickoff

\* the message a retry action r of view v stands for
MessageOf(r, v) == IF r.kind = "kickoff" THEN KickoffOf(v) ELSE r.message

\* C22: the error message a failed send leaves carries a retry action for
\* the message of that very send (the kickoff sentence for a failed
\* initialization, the user's message for a failed turn), and a click on the
\* retry action of an error message sends that message again, once, on the
\* same session, and leaves the view thinking with that send in flight.
C22_RetryResendsFailedMessage ==
    [][ /\ \A x \in sends : \A e \in StreamErrors :
              StreamFailed(x, e)
                  => /\ Last(messages').isError
                     /\ Last(messages').onRetry.kind = x.kind
                     /\ Last(messages').onRetry.chat = x.chat
                     /\ MessageOf(Last(messages').onRetry, view) = x.message
        /\ \A i \in DOMAIN messages :
              RetryClicked(i)
                  => /\ Len(dispatched') = Len(dispatched) + 1
                     /\ Last(dispatched').message = MessageOf(messages[i].onRetry, view)
                     /\ Last(dispatched').chat = messages[i].onRetry.chat
                     /\ Last(dispatched').isRetry
                     /\ isThinking'
                     /\ \E y \in sends' \ sends :
                            /\ y.id = Len(dispatched')
                            /\ y.phase = "awaiting"
                            /\ y.message = Last(dispatched').message ]_vars

\* a failed kickoff and a failed user message have both been sent again
C22_Witness ==
    /\ \E j \in DOMAIN dispatched :
          dispatched[j].isRetry /\ dispatched[j].kind = "kickoff"
    /\ \E j \in DOMAIN dispatched :
          dispatched[j].isRetry /\ dispatched[j].kind = "process" /\ dispatched[j].message = "a"
    /\ isThinking

\* ---------------------------------------------------------------------------
\* C23

\* an action that calls handleGenerate again is on screen: the retry of the
\* error of Home or of a data-dependent tab
GenerateRetryOffered ==
    \/ app.activeTab = "Home" /\ app.error # ""
    \/ app.activeTab \in {"Q&A", "Practical Challenges"} /\ DataTabContent(app) = "error"

\* the error of prep-kit generation is on screen
GenerateErrorShown ==
    /\ app.error # ""
    /\ \/ app.activeTab = "Home"
       \/ app.activeTab \in {"Q&A", "Practical Challenges"} /\ DataTabContent(app) = "error"

\* C23: every user-triggered operation that can fail exposes a retry: in
\* every reachable error state of prep-kit generation, randomized-set
\* generation, company insights, resume analysis and the machine-coding
\* solution fetch, an action that invokes the failed operation again is
\* offered to the user.
C23_EveryErrorHasRetry ==
    /\ GenerateErrorShown => GenerateRetryOffered
    /\ dream.error # "" => app.activeTab = "Dream Company" /\ ~dream.isLoading
    /\ insightsView.error # "" =>
         app.activeTab = "Company Insights" /\ ~insightsView.isLoading
    /\ (resumeView.error # "" /\ ~Blank(resumeView.resume)
          /\ ~Blank(resumeView.jobDescription)) => AnalyzeEnabled(resumeView)
    /\ machine.error # "" => ShowSolutionRendered(machine)

\* ---------------------------------------------------------------------------
\* C24

\* the step calls a service function for `owner` with exactly `inputs`
CallsAgainWith(owner, inputs) ==
    \E p \in promises' \ promises : p.owner = owner /\ p.inputs = inputs

\* C24: the retry of a failed operation invokes it again with exactly the
\* inputs of the failed invocation, also when the input fields (job role,
\* difficulty, search term) were edited between the failure and the retry.
C24_RetryUsesFailedInputs ==
    [][ /\ ((HomeRetry \/ DataTabRetry) /\ failed.generate # Null)
             => CallsAgainWith("generate", failed.generate)
        /\ (DreamHandleRetry /\ failed.dream # Null)
             => CallsAgainWith("dream", failed.dream)
        /\ (InsightsHandleRetry /\ failed.insights # Null)
             => CallsAgainWith("insights", failed.insights) ]_vars

\* ---------------------------------------------------------------------------
\* C26

\* the sidebar button of the tab can be clicked
TabEnabled(name) == ~isDisabled(name, AppDisabled(app))

\* C26: in every reachable state of App the standalone tabs (Home, Mock
\* Interview, Dream Company, Company Insights, Resume Analyzer, Doubt Buster,
\* User Manual) are enabled, and the data-dependent tabs Q&A and Practical
\* Challenges are enabled exactly when a prep kit exists or a generation is
\* loading.
C26_TabsEnabled ==
    /\ \A name \in {"Home", "Mock Interview", "Dream Company", "Company Insights",
                    "Resume Analyzer", "Doubt Buster", "User Manual"} : TabEnabled(name)
    /\ \A name \in {"Q&A", "Practical Challenges"} :
         TabEnabled(name) <=> (app.prepData # Null \/ app.isLoading)

\* a generation is loading and no prep kit exists, on a standalone tab
C26_Witness ==
    /\ app.isLoading /\ app.prepData = Null
    /\ app.activeTab = "User Manual"
    /\ TabEnabled("Q&A") /\ TabEnabled("Practical Challenges")

\* ---------------------------------------------------------------------------
\* C25

\* DoubtBuster is mounted with a chat session and no send is in flight:
\* nothing is left that would dispatch a text later
ExplainQuiescent ==
    view = "doubt" /\ started /\ ~crashed /\ chat # 0 /\ sends = {}

\* the step dispatches the request to explain t to the chat
ExplainDispatches(t) ==
    /\ Len(dispatched') = Len(dispatched) + 1
    /\ dispatched'[Len(dispatched')].message = ExplainPrompt(t)

\* C25: every click on an Explain-This button with non-empty text, once the
\* Doubt Buster chat session exists, results in that text being dispatched to
\* the chat as a user message and in textToExplain being cleared, also when
\* an explanation is already in progress and when the same text is explained
\* twice in a row.  Stated for the clicks inside Doubt Buster, where the
\* active tab is Doubt Buster already: a click while nothing is in flight
\* dispatches its text, and no text is left waiting once nothing is in flight.
C25_ExplainClickDelivered ==
    [][ /\ \A t \in ExplainTexts :
             (ExplainQuiescent /\ DoubtExplainClick(t))
                => (ExplainDispatches(t) /\ textToExplain' = "")
        /\ ExplainQuiescent' => textToExplain' = "" ]_vars

\* ---------------------------------------------------------------------------
\* C27

\* C27: for every response text that is valid JSON beginning with '{' or '['
\* (after trimming), a successful attempt of generateAndParse returns a value
\* equal to JSON.parse of that same text, with no field added, dropped or
\* coerced: the value handed to the caller (the latest entry of the results
\* of an orchestrator, the returned value of a direct call) is JSON.parse of
\* the text of the response, and a valid text is never refused.
C27_ReturnsJsonParseOfText ==
    /\ results # << >> =>
         /\ JSONParse(lastText).ok
         /\ results[Len(results)] = JSONParse(lastText).value
    /\ (op = "direct" /\ outcome.kind = "returned") =>
         outcome.value = JSONParse(lastText).value
    /\ (op # "insights" /\ attemptLog # << >> /\ lastResponse.kind = "text"
          /\ JSONParse(lastResponse.text).ok
          /\ (StartsWith(Trim(lastResponse.text), "{")
                \/ StartsWith(Trim(lastResponse.text), "[")))
         => /\ attemptLog[Len(attemptLog)].ok
            /\ lastText = lastResponse.text

\* a direct call returned the value of a text with white space around and
\* inside it
C27_Witness ==
    /\ op = "direct" /\ outcome.kind = "returned"
    /\ lastText = <<" ", "[", " ", "]", " ">>
    /\ outcome.value = [json |-> <<"[", "]">>]

\* ---------------------------------------------------------------------------
\* C28

\* the attempt that ended in this step, as the history logs it
EndedAttempt == attemptLog'[Len(attemptLog')]

\* C28: the wait after failed attempt k (k < maxRetries) of generateAndParse
\* is 1000*k + j milliseconds with 0 <= j < 1000, so successive waits never
\* decrease as k grows; no wait occurs after the final failed attempt or
\* after a successful attempt.
C28_BackoffGrowsWithAttempt ==
    [][ (Len(attemptLog') = Len(attemptLog) + 1 /\ op' # "insights") =>
          IF ~EndedAttempt.ok /\ EndedAttempt.attempt < maxRetries'
          THEN /\ pc' = "backoff"
               /\ lastWait'.kind = "backoff"
               /\ lastWait'.ms >= 1000 * EndedAttempt.attempt
               /\ lastWait'.ms < 1000 * EndedAttempt.attempt + 1000
               /\ EndedAttempt.attempt > 1 =>
                    (lastWait.kind = "backoff" /\ lastWait.ms <= lastWait'.ms)
          ELSE /\ pc' # "backoff"
               /\ lastWait'.kind # "backoff" \/ lastWait' = lastWait ]_vars

\* the second attempt of a call with three attempts failed, and the loop waits
\* for the second time
C28_Witness ==
    /\ pc = "backoff" /\ attempt = 2 /\ maxRetries = 3
    /\ lastWait.kind = "backoff" /\ lastWait.ms = 2000

\* ---------------------------------------------------------------------------
\* C29

\* the pauses an orchestrator has made once n of its sub-calls have returned
PausesAfter(o, n) == IF n < Len(SubCalls(o)) THEN n ELSE Len(SubCalls(o)) - 1

\* C29: in an orchestrated operation a fixed pause (2000 ms in
\* generateFullInterviewPrep, 1500 ms in generateRandomizedPrepSet) occurs
\* exactly once between each pair of consecutive sub-calls and only after the
\* earlier sub-call succeeded; no pause follows the last sub-call or a
\* sub-call that failed permanently.
C29_PauseBetweenSubCalls ==
    [][ /\ op' \in Orchestrators =>
             /\ pauses' = PausesAfter(op', Len(results'))
             /\ pc' = "pause" <=> pauses' = pauses + 1
             /\ pc' = "pause" =>
                  /\ lastWait' = [kind |-> "pause",
                                  ms |-> IF op' = "full" THEN 2000 ELSE 1500]
                  /\ Len(results') = Len(results) + 1
                  /\ attemptLog'[Len(attemptLog')].ok
             /\ sub' # sub => (pc = "pause" /\ sub' = sub + 1 /\ pauses = sub)
             /\ outcome'.kind = "thrown" => (pc' = "done" /\ pauses' = pauses)
        /\ op' \notin Orchestrators => (pauses' = 0 /\ pc' # "pause") ]_vars

\* generateRandomizedPrepSet pauses for the third time, before its last sub-call
C29_Witness ==
    /\ op = "random" /\ pc = "pause"
    /\ pauses = 3 /\ Len(results) = 3
    /\ lastWait = [kind |-> "pause", ms |-> 1500]

\* ---------------------------------------------------------------------------
\* C30

\* the first n fragments of the stream of send id, in arrival order
Fragments(id, n) == [k \in 1..n |-> ChunkText(id, k)]

\* a fragment of the stream of x arrives
ChunkStep(x) == MockChunkArrives(x) \/ DoubtChunkArrives(x)

\* C30: while a chat stream is open, each received fragment is appended, in
\* arrival order, to the single most recent model message only: at every
\* step that message's text is the concatenation of all fragments received
\* so far (none lost, duplicated or written into another message) and no
\* other transcript entry changes.
C30_FragmentsAppendedInOrder ==
    [][ \A x \in sends : ChunkStep(x) =>
          LET last == Len(messages) IN
          /\ ~crashed'
          /\ last > 0 /\ Len(messages') = last
          /\ \A i \in 1..(last - 1) : messages'[i] = messages[i]
          /\ messages'[last].role = "model" /\ ~messages'[last].isError
          /\ messages'[last].text = Fragments(x.id, x.n + 1) ]_vars

\* ---------------------------------------------------------------------------
\* C31

\* the entry is a model message a stream wrote, not an error message
StreamedMessage(m) == m.role = "model" /\ ~m.isError

\* C31: once a chat stream has completed, its model message is sealed: no
\* later send, fragment, error or retry changes its text or removes it from
\* the transcript.  Stated for the states of a running session in which
\* every stream has ended: whatever the user does next, short of resetting
\* the interview, every streamed model message stays where it is, as it is.
C31_CompletedMessageSealed ==
    [][ (sends = {} /\ started /\ started') =>
          \A i \in DOMAIN messages :
             StreamedMessage(messages[i]) =>
                (i \in DOMAIN messages' /\ messages'[i] = messages[i]) ]_vars

\* C32
\* the orchestrated operation has sent at least one request
Orchestrated == op \in Orchestrators /\ promptLog # << >>

\* C32: within one orchestrated operation the role category is computed once
\* and every sub-prompt and the returned aggregate use that same value: no two
\* requests of the operation, first attempts or retries, state different
\* categories, the category is the one of the job role, and the aggregate
\* returned carries it.
C32_OneRoleCategory ==
    Orchestrated =>
        /\ \A i, j \in DOMAIN promptLog : promptLog[i] = promptLog[j]
        /\ promptLog[1] = getRoleCategory(args.jobRole)
        /\ promptLog[1] \in {"tech", "content"}
        /\ outcome.kind = "returned" => outcome.value.roleCategory = promptLog[1]

\* a content role went through all three sub-calls with a retry and came back
C32_Witness ==
    /\ op = "full"
    /\ outcome.kind = "returned"
    /\ Len(promptLog) = 4
    /\ \A i \in DOMAIN promptLog : promptLog[i] = "content"
    /\ outcome.value.roleCategory = "content"

\* C33: handleApiError is total: for every input (an Error with a message, an
\* Error with an empty message, null, undefined, a thrown value that is no
\* Error) the call can be made and it returns an Error whose message is not
\* empty and has no empty part.
C33_HandleApiErrorTotal ==
    /\ friendlyError = Null => ENABLED CallHandleApiError
    /\ friendlyError # Null =>
          /\ friendlyError.kind = "Error"
          /\ friendlyError.message # << >>
          /\ \A i \in DOMAIN friendlyError.message : friendlyError.message[i] # ""

\* an Error without a message was classified
C33_Witness ==
    /\ thrown = Error(<< >>)
    /\ friendlyError = Error(<<SentenceGeneric>>)

\* C34
\* a call of handleGenerate or handleRefresh that is still awaited
PrepCalls == { p \in promises : p.owner \in {"generate", "refresh"} }

\* C34: each generation or refresh replaces App's prepData wholesale: whenever
\* prepData changes it becomes null (a generation starts) or the complete
\* result of one call that settles in that step, never a mix of the old and
\* the new result; and the step in which a refresh fails leaves prepData as it
\* was.
C34_PrepDataReplacedWhole ==
    [][ /\ app'.prepData # app.prepData =>
              \/ app'.prepData = Null
              \/ \E p \in PrepCalls : p \notin promises' /\ app'.prepData = ResultOf(p)
        /\ (\E p \in promises, message \in FailureMessages : RefreshRejects(p, message))
              => app'.prepData = app.prepData ]_vars

\* the second call, a refresh, failed and the result of the first call is
\* still there
C34_Witness ==
    /\ app.prepData # Null
    /\ app.prepData.request = 1
    /\ requests = 2
    /\ failed.generate # Null
    /\ ~app.isRefreshing
    /\ app.error # ""

\* C35
\* One process in which a generation function and the Mock Interview, which
\* creates a chat at every start, share the client of geminiService.ts.
SpecClientInit == GenInit /\ ChatIdle("mock") /\ PureIdle /\ AppIdle

SpecClientNext ==
    \/ generateCompanyInsights
    \/ generateMachineCodingSolution
    \/ ServiceResponds
    \/ ServiceRejects
    \/ BackoffElapsed
    \/ MockHandleStartInterview
    \/ MockHandleResetInterview
    \/ \E x \in sends : MockStreamOpens(x)
    \/ \E x \in sends : MockStreamEnds(x)

SpecClient == SpecClientInit /\ [][SpecClientNext]_vars

\* a call has reached getAiClient: a request went out, an attempt failed
\* before its request, or a chat creation was tried
ClientAsked == callLog # << >> \/ attemptLog # << >> \/ messages # << >> \/ chatsCreated > 0

\* C35: the AI-service client is constructed at most once per process over
\* any interleaving of generation and chat-creation calls: the first call that
\* finds a credential builds it, every later call gets the cached one, and a
\* call without a credential constructs and caches nothing.
C35_ClientBuiltOnce ==
    /\ clientsBuilt <= 1
    /\ ai <=> clientsBuilt = 1
    /\ ~apiKey => ~ai
    /\ (apiKey /\ ClientAsked) => ai

\* a generation request and two chat creations were served by one client
C35_Witness ==
    /\ clientsBuilt = 1
    /\ chatsCreated = 2
    /\ callLog # << >>
    /\ Len(attemptLog) >= 2

\* C36
\* the attempts made so far for sub-call k, and those that sent a request
AttemptsOf(k) == { i \in DOMAIN attemptLog : attemptLog[i].sub = k }
RequestsTo(name) == { i \in DOMAIN callLog : callLog[i] = name }

\* C36: provided every service request settles, every orchestrated operation
\* terminates after at most 2 attempts per sub-call: until it is done it waits
\* for its one open request, for a backoff timer with an attempt left or for
\* a pause with a sub-call left, no sub-call is attempted or requested more
\* than twice, and the service receives at most 6 requests from
\* generateFullInterviewPrep and at most 8 from generateRandomizedPrepSet.
C36_OrchestrationTerminates ==
    op \in Orchestrators =>
        /\ pc \in {"inflight", "backoff", "pause", "done"}
        /\ pc = "inflight" <=> inFlight = 1
        /\ pc = "backoff" => attempt < maxRetries
        /\ pc = "pause" => sub < Len(SubCalls(op))
        /\ attempt <= 2
        /\ \A k \in DOMAIN SubCalls(op) :
              /\ Cardinality(AttemptsOf(k)) <= 2
              /\ Cardinality(RequestsTo(SubCalls(op)[k])) <= 2
        /\ op = "full" => Len(callLog) <= 6
        /\ op = "random" => Len(callLog) <= 8
        /\ inFlight <= 1

\* the randomized set came back after eight requests, each sub-call having
\* failed once
C36_Witness ==
    /\ op = "random"
    /\ pc = "done"
    /\ outcome.kind = "returned"
    /\ Len(callLog) = 8

\* C37
\* send x was dispatched in an earlier session of the Mock Interview
OfEarlierSession(x) == view = "mock" /\ started /\ chat # 0 /\ x.chat # chat

\* the step is an event of the stream of send x
StreamEvent(x) ==
    \/ MockStreamOpens(x)
    \/ MockChunkArrives(x)
    \/ MockStreamEnds(x)
    \/ \E e \in StreamErrors : MockStreamFails(x, e)

\* a kickoff or a user send of the running session is in flight
SendOfSessionInFlight ==
    processingMessage /\ \E y \in sends : y.chat = chat /\ ~y.isRetry

\* C37: after handleResetInterview followed by the start of a new interview,
\* nothing of the previous session leaks into the new one: no event of a
\* still-running stream of the previous session changes the new transcript,
\* and none clears the in-flight guard (processingMessage, isThinking) while
\* a send of the new session is in flight.
C37_NoLeakAcrossReset ==
    [][ \A x \in sends :
          (OfEarlierSession(x) /\ StreamEvent(x)) =>
              /\ messages' = messages
              /\ SendOfSessionInFlight => (processingMessage' /\ isThinking') ]_vars

\* C38: when a refresh and a new generation overlap in App, the prepData
\* finally displayed is the result of the most recently initiated request,
\* regardless of the order of completion: once no call of handleGenerate or
\* handleRefresh is awaited any more, the result on display has not been
\* replaced by the result of a call initiated before the one that made it.
C38_LatestRequestWins ==
    [][ (PrepCalls' = {} /\ app.prepData # Null /\ app'.prepData # Null)
            => app'.prepData.request >= app.prepData.request ]_vars

\* C39
\* send x holds the in-flight guard: a kickoff, first or retried, or the
\* first sending of a user message
HoldsGuard(x) == x.kind = "kickoff" \/ ~x.isRetry

\* C39: in MockInterview the in-flight guard is never stuck: while the view is
\* alive, processingMessage.current = true implies that a kickoff or a user
\* send is actually in flight, so once every send has ended neither
\* processingMessage nor isThinking refuses a new user message.
C39_GuardNeverStuck ==
    (view = "mock" /\ ~crashed) =>
        /\ processingMessage => \E x \in sends : HoldsGuard(x)
        /\ sends = {} => (~processingMessage /\ ~isThinking)

\* the kickoff and a user message have both ended and the guard is free
C39_Witness ==
    /\ view = "mock" /\ ~crashed
    /\ started
    /\ chat # 0
    /\ sends = {}
    /\ lastProcessedMessage = "a"
    /\ Len(dispatched) >= 2
    /\ ~processingMessage /\ ~isThinking
    /\ ~MockSendRefused(ChatState, MockKickoff)

=============================================================================
